---- MODULE Spec2Model ----
(***************************************************************************)
(* Model of github.com/selfenth/panics: the stack walker (findPanics), the *)
(* frame parser (parseLocation), the ignore policy (isIgnoreLoc) and the   *)
(* capture entry points (Recover / RecoverWithContext -> postRecover).     *)
(*                                                                         *)
(* Go strings are modelled as sequences of one-character strings, so that  *)
(* strings.HasPrefix, strings.Index, strings.Split, strings.TrimSpace,     *)
(* strings.Contains and strconv.ParseInt are computed and not assumed.     *)
(* Go slices are 0-based; At(s, k) reads the element of Go index k.        *)
(***************************************************************************)
EXTENDS Integers, Sequences, FiniteSets, TLC

\* ------------------------------------------------------------------------
\* Bounds of the model
\* ------------------------------------------------------------------------

\* largest number of two-line frames below the header of a generated dump
MaxFrames == 4

\* largest number of chained unwind events in the dumps given to a capture
MaxChain == 2

\* ------------------------------------------------------------------------
\* Text constants
\* ------------------------------------------------------------------------

panicPrefix == <<"p", "a", "n", "i", "c", "(">>

UNKNOWN == <<"U", "N", "K", "N", "O", "W", "N">>

UNKNOWNFuncLine == <<"U", "N", "K", "N", "O", "W", "N", ":", "-", "1">>

HeaderLine == <<"g", "o", "r", "o", "u", "t", "i", "n", "e", " ", "1", ":">>

PanicFuncLine == <<"p", "a", "n", "i", "c", "(", "1", ")">>

PanicFileLine == <<"\t", "/", "s", "r", "c", "/", "r", "u", "n", "t", "i", "m", "e", "/", "p", ".", "g", "o", ":", "8", " ", "+", "1">>

FmtFuncLine == <<"f", "m", "t", ".", "F", "(", "1", ")">>

FmtFileLine == <<"\t", "/", "s", "r", "c", "/", "f", "m", "t", "/", "p", ".", "g", "o", ":", "2", " ", "+", "1">>

MainFuncLine == <<"m", "a", "i", "n", ".", "m", "(", ")">>

MainFileLine == <<"\t", "/", "a", "/", "m", ".", "g", "o", ":", "1", "9", " ", "+", "1">>

stdLibPaths ==
  << <<"/", "s", "r", "c", "/", "b", "u", "f", "i", "o", "/">>,
     <<"/", "s", "r", "c", "/", "a", "r", "c", "h", "i", "v", "e", "/">>,
     <<"/", "s", "r", "c", "/", "c", "o", "m", "p", "r", "e", "s", "s", "/">>,
     <<"/", "s", "r", "c", "/", "c", "o", "n", "t", "a", "i", "n", "e", "r", "/">>,
     <<"/", "s", "r", "c", "/", "c", "o", "n", "t", "e", "x", "t", "/">>,
     <<"/", "s", "r", "c", "/", "c", "r", "y", "p", "t", "o", "/">>,
     <<"/", "s", "r", "c", "/", "d", "a", "t", "a", "b", "a", "s", "e", "/">>,
     <<"/", "s", "r", "c", "/", "d", "e", "b", "u", "g", "/">>,
     <<"/", "s", "r", "c", "/", "e", "m", "b", "e", "d", "/">>,
     <<"/", "s", "r", "c", "/", "e", "n", "c", "o", "d", "i", "n", "g", "/">>,
     <<"/", "s", "r", "c", "/", "e", "r", "r", "o", "r", "s", "/">>,
     <<"/", "s", "r", "c", "/", "e", "x", "p", "v", "a", "r", "/">>,
     <<"/", "s", "r", "c", "/", "f", "l", "a", "g", "/">>,
     <<"/", "s", "r", "c", "/", "f", "m", "t", "/">>,
     <<"/", "s", "r", "c", "/", "g", "o", "/">>,
     <<"/", "s", "r", "c", "/", "h", "a", "s", "h", "/">>,
     <<"/", "s", "r", "c", "/", "h", "t", "m", "l", "/">>,
     <<"/", "s", "r", "c", "/", "i", "m", "a", "g", "e", "/">>,
     <<"/", "s", "r", "c", "/", "i", "n", "d", "e", "x", "/">>,
     <<"/", "s", "r", "c", "/", "i", "o", "/">>,
     <<"/", "s", "r", "c", "/", "l", "o", "g", "/">>,
     <<"/", "s", "r", "c", "/", "m", "a", "p", "s", "/">>,
     <<"/", "s", "r", "c", "/", "m", "a", "t", "h", "/">>,
     <<"/", "s", "r", "c", "/", "m", "i", "n", "e", "/">>,
     <<"/", "s", "r", "c", "/", "n", "e", "t", "/">>,
     <<"/", "s", "r", "c", "/", "o", "s", "/">>,
     <<"/", "s", "r", "c", "/", "p", "a", "t", "h", "/">>,
     <<"/", "s", "r", "c", "/", "p", "l", "u", "g", "i", "n", "/">>,
     <<"/", "s", "r", "c", "/", "r", "e", "f", "l", "e", "c", "t", "/">>,
     <<"/", "s", "r", "c", "/", "r", "e", "g", "e", "x", "p", "/">>,
     <<"/", "s", "r", "c", "/", "r", "u", "n", "t", "i", "m", "e", "/">>,
     <<"/", "s", "r", "c", "/", "s", "l", "i", "c", "e", "s", "/">>,
     <<"/", "s", "r", "c", "/", "s", "o", "r", "t", "/">>,
     <<"/", "s", "r", "c", "/", "s", "t", "r", "c", "o", "n", "v", "/">>,
     <<"/", "s", "r", "c", "/", "s", "t", "r", "i", "n", "g", "s", "/">>,
     <<"/", "s", "r", "c", "/", "s", "y", "n", "c", "/">>,
     <<"/", "s", "r", "c", "/", "s", "y", "s", "c", "a", "l", "l", "/">>,
     <<"/", "s", "r", "c", "/", "t", "e", "s", "t", "i", "n", "g", "/">>,
     <<"/", "s", "r", "c", "/", "t", "e", "x", "t", "/">>,
     <<"/", "s", "r", "c", "/", "t", "i", "m", "e", "/">>,
     <<"/", "s", "r", "c", "/", "u", "n", "i", "c", "o", "d", "e", "/">>,
     <<"/", "s", "r", "c", "/", "u", "n", "s", "a", "f", "e", "/">> >>

fmtPath == <<"/", "s", "r", "c", "/", "f", "m", "t", "/">>

\* ------------------------------------------------------------------------
\* The Go string functions the walker and the parser use
\* ------------------------------------------------------------------------

At(s, k) == s[k + 1]

\* s[from:to] of Go (0-based, to exclusive)
Slice(s, from, to) == SubSeq(s, from + 1, to)

HasPrefix(s, prefix) ==
  /\ Len(s) >= Len(prefix)
  /\ SubSeq(s, 1, Len(prefix)) = prefix

Contains(s, substr) ==
  \E k \in 0..(Len(s) - Len(substr)) : Slice(s, k, k + Len(substr)) = substr

\* strings.Index for a one-character separator: first 0-based index, or -1
Index(s, c) ==
  IF \E k \in 1..Len(s) : s[k] = c
  THEN (CHOOSE k \in 1..Len(s) : s[k] = c /\ \A j \in 1..(k - 1) : s[j] # c) - 1
  ELSE -1

IsSpace(c) == c \in {" ", "\t", "\n", "\r", "\f"}

TrimSpace(s) ==
  IF \A k \in 1..Len(s) : IsSpace(s[k])
  THEN << >>
  ELSE LET first == CHOOSE k \in 1..Len(s) :
                      ~IsSpace(s[k]) /\ \A j \in 1..(k - 1) : IsSpace(s[j])
           last  == CHOOSE k \in 1..Len(s) :
                      ~IsSpace(s[k]) /\ \A j \in (k + 1)..Len(s) : IsSpace(s[j])
       IN SubSeq(s, first, last)

RECURSIVE Split(_, _)
Split(s, sep) ==
  LET idx == Index(s, sep)
  IN IF idx < 0 THEN << s >>
     ELSE << Slice(s, 0, idx) >> \o Split(Slice(s, idx + 1, Len(s)), sep)

\* strings.SplitN(s, sep, 2)
SplitN2(s, sep) ==
  LET idx == Index(s, sep)
  IN IF idx < 0 THEN << s >>
     ELSE << Slice(s, 0, idx), Slice(s, idx + 1, Len(s)) >>

Digits == << "0", "1", "2", "3", "4", "5", "6", "7", "8", "9" >>

IsDigit(c) == \E d \in 1..10 : Digits[d] = c

DigitVal(c) == (CHOOSE d \in 1..10 : Digits[d] = c) - 1

RECURSIVE DecimalVal(_)
DecimalVal(s) ==
  IF s = << >> THEN 0
  ELSE 10 * DecimalVal(SubSeq(s, 1, Len(s) - 1)) + DigitVal(s[Len(s)])

\* strconv.ParseInt(s, 10, 64): an optional sign and at least one digit.
\* The numerals of the dumps are short, so the int64 range check never fails.
ParseInt(s) ==
  LET signed == Len(s) > 0 /\ s[1] \in {"+", "-"}
      digits == IF signed THEN Tail(s) ELSE s
  IN IF digits = << >> \/ \E k \in 1..Len(digits) : ~IsDigit(digits[k])
     THEN [err |-> TRUE, val |-> 0]
     ELSE [err |-> FALSE,
           val |-> IF signed /\ s[1] = "-" THEN 0 - DecimalVal(digits)
                   ELSE DecimalVal(digits)]

\* ------------------------------------------------------------------------
\* Position, unknownLoc and the frame parser
\* ------------------------------------------------------------------------

unknownLoc ==
  [FileLine |-> UNKNOWN, FuncLine |-> UNKNOWNFuncLine, File |-> UNKNOWN,
   Line |-> 0, Function |-> UNKNOWN, Depth |-> -1]

\* mutant of parseLocation: the function name is not cut at the first "("
parseLocationWholeLine(funcLine, fileLine) ==
  LET funcName == funcLine
      parts    == SplitN2(TrimSpace(fileLine), ":")
      parsed   == ParseInt(Split(parts[2], " ")[1])
  IN IF Len(parts) = 1
     THEN [Function |-> funcName, File |-> parts[1], Line |-> -1,
           FuncLine |-> funcLine, FileLine |-> TrimSpace(fileLine), Depth |-> 0]
     ELSE [Function |-> funcName, File |-> parts[1],
           Line |-> IF parsed.err THEN -1 ELSE parsed.val,
           FuncLine |-> funcLine, FileLine |-> TrimSpace(fileLine), Depth |-> 0]

parseLocation(funcLine, fileLine) ==
  LET idx      == Index(funcLine, "(")
      funcName == IF idx > 0 THEN Slice(funcLine, 0, idx) ELSE funcLine
      parts    == SplitN2(TrimSpace(fileLine), ":")
      parsed   == ParseInt(Split(parts[2], " ")[1])
  IN IF Len(parts) = 1
     THEN [Function |-> funcName, File |-> parts[1], Line |-> -1,
           FuncLine |-> funcLine, FileLine |-> TrimSpace(fileLine), Depth |-> 0]
     ELSE [Function |-> funcName, File |-> parts[1],
           Line |-> IF parsed.err THEN -1 ELSE parsed.val,
           FuncLine |-> funcLine, FileLine |-> TrimSpace(fileLine), Depth |-> 0]

\* ------------------------------------------------------------------------
\* Ignore policy: a list of checkers, OR-combined
\* ------------------------------------------------------------------------

\* ignoreContainPath.shouldIgnore
shouldIgnore(paths, funcLine, fileLine) ==
  \E p \in 1..Len(paths) : Contains(fileLine, paths[p])

\* One checker applied to a frame pair.  "stdlib" is the built-in
\* ignoreStdLibLocaionChecker; the others are checkers a user can pass to
\* SetIgnoreLocationChecker: one that flags every frame, one that flags
\* none, and one that flags the frames of one library.
check(checker, funcLine, fileLine) ==
  CASE checker = "stdlib" -> shouldIgnore(stdLibPaths, funcLine, fileLine)
    [] checker = "all"    -> TRUE
    [] checker = "none"   -> FALSE
    [] checker = "fmt"    -> shouldIgnore(<< fmtPath >>, funcLine, fileLine)

\* mutant of isIgnoreLoc: a pair is noise only if every checker flags it
isIgnoreLocAll(checkers, funcLine, fileLine) ==
  \A c \in 1..Len(checkers) : check(checkers[c], funcLine, fileLine)

isIgnoreLoc(checkers, funcLine, fileLine) ==
  \E c \in 1..Len(checkers) : check(checkers[c], funcLine, fileLine)

\* ------------------------------------------------------------------------
\* State
\* ------------------------------------------------------------------------

VARIABLES
  \* findPanics (the stack walker)
  stack,      \* the dump text handed to findPanics
  checkers,   \* ignoreLocationCheckers of the settings the action loads
  lines,      \* strings.Split(stack, "\n")
  i,          \* scan index (Go index into lines)
  directLoc,  \* *Position: << >> is nil, << p >> points to p
  panicLocs,  \* records appended so far
  pc,         \* "start", "scan", "done" (returned) or "raised" (runtime panic)
  ret,        \* the returned slice
  \* a capture (Recover / RecoverWithContext)
  action,     \* the action value the deferred call was made on
  settings,   \* the settings object the action's container loads
  inflight,   \* what recover() returns: "nil" or the panic value
  cstack,     \* what runtime.Stack writes during the capture
  frames,     \* activations of postRecover, outermost first
  calls,      \* user and watch callbacks invoked so far, in order
  outcome,    \* "deferred", "running", "returned", "panicked" (propagated)
  deferred,   \* the deferred call: Recover, or RecoverWithContext and its ctx
  \* building an action
  template,   \* an action value that builder methods are called on
  cells,      \* the func variables that Always, Succeed and Panic point to
  chain,      \* the builder calls and assignments made so far
  \* the named registry
  namedSettings, \* sync.Map: name -> settings instance (0: no entry)
  nextId,        \* the next settings instance to allocate
  rpc,           \* position of each goroutine in load
  rloc,          \* locals of each goroutine: name, s2
  hist,          \* calls and returns of registry operations, in order
  \* the settings objects
  heap,          \* settings instance -> its fields
  ops            \* the public operations on settings made so far

walkVars == << stack, checkers, lines, i, directLoc, panicLocs, pc, ret >>

captureVars == << action, settings, inflight, cstack, frames, calls, outcome, deferred >>

buildVars == << template, cells, chain >>

registryVars == << namedSettings, nextId, rpc, rloc, hist >>

settingsVars == << heap, ops >>

vars == << stack, checkers, lines, i, directLoc, panicLocs, pc, ret,
           action, settings, inflight, cstack, frames, calls, outcome, deferred,
           template, cells, chain,
           namedSettings, nextId, rpc, rloc, hist,
           heap, ops >>

\* ------------------------------------------------------------------------
\* findPanics
\* ------------------------------------------------------------------------

\* the locals of findPanics before the loop
startScan == [i |-> 0, directLoc |-> << >>, panicLocs |-> << >>, raised |-> FALSE]

\* lines[i+2], lines[i+3] of the marker branch are inside the slice
markerInRange(ls, st) == st.i + 3 < Len(ls)

\* mutant of scanStep: Direct is parsed from the trigger's own frame
scanStepDirectFromTrigger(ls, cks, st) ==
  IF st.directLoc # << >>
  THEN IF isIgnoreLoc(cks, At(ls, st.i - 1), At(ls, st.i))
       THEN [st EXCEPT !.i = @ + 2]
       ELSE [st EXCEPT
               !.panicLocs = Append(@, [Direct |-> st.directLoc[1],
                                        Actual |-> parseLocation(At(ls, st.i - 1), At(ls, st.i))]),
               !.directLoc = << >>,
               !.i = @ + 1]
  ELSE IF HasPrefix(At(ls, st.i), panicPrefix)
       THEN IF markerInRange(ls, st)
            THEN [st EXCEPT
                    !.directLoc = << parseLocation(At(ls, st.i + 0), At(ls, st.i + 1)) >>,
                    !.i = @ + 3]
            ELSE [st EXCEPT !.raised = TRUE]
       ELSE [st EXCEPT !.i = @ + 1]

\* mutant of scanStep: the pair at the scan index is selected, flagged or not
scanStepSelectsFlagged(ls, cks, st) ==
  IF st.directLoc # << >>
  THEN IF FALSE
       THEN [st EXCEPT !.i = @ + 2]
       ELSE [st EXCEPT
               !.panicLocs = Append(@, [Direct |-> st.directLoc[1],
                                        Actual |-> parseLocation(At(ls, st.i - 1), At(ls, st.i))]),
               !.directLoc = << >>,
               !.i = @ + 1]
  ELSE IF HasPrefix(At(ls, st.i), panicPrefix)
       THEN IF markerInRange(ls, st)
            THEN [st EXCEPT
                    !.directLoc = << parseLocation(At(ls, st.i + 2), At(ls, st.i + 3)) >>,
                    !.i = @ + 3]
            ELSE [st EXCEPT !.raised = TRUE]
       ELSE [st EXCEPT !.i = @ + 1]

\* mutant of scanStep: a flagged pair moves the scan index back
scanStepBackOnNoise(ls, cks, st) ==
  IF st.directLoc # << >>
  THEN IF isIgnoreLoc(cks, At(ls, st.i - 1), At(ls, st.i))
       THEN [st EXCEPT !.i = @ - 2]
       ELSE [st EXCEPT
               !.panicLocs = Append(@, [Direct |-> st.directLoc[1],
                                        Actual |-> parseLocation(At(ls, st.i - 1), At(ls, st.i))]),
               !.directLoc = << >>,
               !.i = @ + 1]
  ELSE IF HasPrefix(At(ls, st.i), panicPrefix)
       THEN IF markerInRange(ls, st)
            THEN [st EXCEPT
                    !.directLoc = << parseLocation(At(ls, st.i + 2), At(ls, st.i + 3)) >>,
                    !.i = @ + 3]
            ELSE [st EXCEPT !.raised = TRUE]
       ELSE [st EXCEPT !.i = @ + 1]

\* mutant of scanStep: the search for Actual starts at the pair after Direct
scanStepSkipDirect(ls, cks, st) ==
  IF st.directLoc # << >>
  THEN IF isIgnoreLoc(cks, At(ls, st.i - 1), At(ls, st.i))
       THEN [st EXCEPT !.i = @ + 2]
       ELSE [st EXCEPT
               !.panicLocs = Append(@, [Direct |-> st.directLoc[1],
                                        Actual |-> parseLocation(At(ls, st.i - 1), At(ls, st.i))]),
               !.directLoc = << >>,
               !.i = @ + 1]
  ELSE IF HasPrefix(At(ls, st.i), panicPrefix)
       THEN IF markerInRange(ls, st)
            THEN [st EXCEPT
                    !.directLoc = << parseLocation(At(ls, st.i + 2), At(ls, st.i + 3)) >>,
                    !.i = @ + 5]
            ELSE [st EXCEPT !.raised = TRUE]
       ELSE [st EXCEPT !.i = @ + 1]

\* one iteration of the scan loop; raised marks Go's index-out-of-range panic
scanStep(ls, cks, st) ==
  IF st.directLoc # << >>
  THEN IF isIgnoreLoc(cks, At(ls, st.i - 1), At(ls, st.i))
       THEN [st EXCEPT !.i = @ + 2]
       ELSE [st EXCEPT
               !.panicLocs = Append(@, [Direct |-> st.directLoc[1],
                                        Actual |-> parseLocation(At(ls, st.i - 1), At(ls, st.i))]),
               !.directLoc = << >>,
               !.i = @ + 1]
  ELSE IF HasPrefix(At(ls, st.i), panicPrefix)
       THEN IF markerInRange(ls, st)
            THEN [st EXCEPT
                    !.directLoc = << parseLocation(At(ls, st.i + 2), At(ls, st.i + 3)) >>,
                    !.i = @ + 3]
            ELSE [st EXCEPT !.raised = TRUE]
       ELSE [st EXCEPT !.i = @ + 1]

\* mutant of assignDepth: depths count from 1
assignDepthOneBased(locs) ==
  [k \in 1..Len(locs) |->
     [Direct |-> [locs[k].Direct EXCEPT !.Depth = k],
      Actual |-> [locs[k].Actual EXCEPT !.Depth = k]]]

\* the depth post-pass
assignDepth(locs) ==
  [k \in 1..Len(locs) |->
     [Direct |-> [locs[k].Direct EXCEPT !.Depth = k - 1],
      Actual |-> [locs[k].Actual EXCEPT !.Depth = k - 1]]]

\* the record list when no marker was found
sentinelLocs == << [Direct |-> unknownLoc, Actual |-> unknownLoc] >>

\* mutant of finishScan: a Direct still pending at the end is dropped
finishScanDropsPending(st) ==
  IF Len(st.panicLocs) = 0
  THEN sentinelLocs
  ELSE assignDepth(st.panicLocs)

\* mutant of finishScan: the depth post-pass also runs over the sentinel
finishScanDepthOnSentinel(st) ==
  IF st.directLoc # << >>
  THEN assignDepth(Append(st.panicLocs,
                          [Direct |-> st.directLoc[1], Actual |-> st.directLoc[1]]))
  ELSE IF Len(st.panicLocs) = 0
       THEN assignDepth(sentinelLocs)
       ELSE assignDepth(st.panicLocs)

\* the code after the loop: fallback to Direct, sentinel, depth post-pass
finishScan(st) ==
  IF st.directLoc # << >>
  THEN assignDepth(Append(st.panicLocs,
                          [Direct |-> st.directLoc[1], Actual |-> st.directLoc[1]]))
  ELSE IF Len(st.panicLocs) = 0
       THEN sentinelLocs
       ELSE assignDepth(st.panicLocs)

RECURSIVE scanLoop(_, _, _)
scanLoop(ls, cks, st) ==
  IF st.raised \/ ~(st.i < Len(ls)) THEN st
  ELSE scanLoop(ls, cks, scanStep(ls, cks, st))

\* findPanics as a function of the dump and the ignore list
findPanics(text, cks) ==
  LET st == scanLoop(Split(text, "\n"), cks, startScan)
  IN [raised |-> st.raised,
      locs   |-> IF st.raised THEN << >> ELSE finishScan(st)]

\* ------------------------------------------------------------------------
\* Dumps: a header line and two-line frames, as runtime.Stack writes them,
\* cut after any line (the 64 KiB buffer truncates long dumps)
\* ------------------------------------------------------------------------

FrameKinds == {"panic", "fmt", "main"}

frameLines(kind) ==
  CASE kind = "panic" -> << PanicFuncLine, PanicFileLine >>
    [] kind = "fmt"   -> << FmtFuncLine, FmtFileLine >>
    [] kind = "main"  -> << MainFuncLine, MainFileLine >>

RECURSIVE dumpLines(_)
dumpLines(fs) ==
  IF fs = << >> THEN << HeaderLine >>
  ELSE dumpLines(SubSeq(fs, 1, Len(fs) - 1)) \o frameLines(fs[Len(fs)])

RECURSIVE joinLines(_)
joinLines(ls) ==
  IF Len(ls) = 1 THEN ls[1]
  ELSE joinLines(SubSeq(ls, 1, Len(ls) - 1)) \o << "\n" >> \o ls[Len(ls)]

\* the first n lines of the dump, with or without the newline that ends them
dumpText(fs, n, newline) ==
  joinLines(SubSeq(dumpLines(fs), 1, n)) \o (IF newline THEN << "\n" >> ELSE << >>)

FrameSeqs(max) == UNION {[1..n -> FrameKinds] : n \in 0..max}

Dumps ==
  UNION {{dumpText(fs, n, nl) : n \in 1..(2 * Len(fs) + 1), nl \in BOOLEAN} :
           fs \in FrameSeqs(MaxFrames)}

Policies == {<< >>, << "stdlib" >>, << "all" >>, << "none", "fmt" >>}

\* the func variables of the caller: one per callback kind, each holding
\* an ordinary function at first
CellNames == {"&alwaysF", "&onPanicF", "&onSucceedF"}

initialCells == [c \in CellNames |-> "f"]

\* values of the builder variables while no action is being built
buildIdle ==
  /\ template = "none"
  /\ cells = initialCells
  /\ chain = << >>

\* values of the settings variables while no settings object is changed
settingsIdle ==
  /\ heap = << >>
  /\ ops = << >>

\* values of the registry variables while the registry is not used
registryIdle ==
  /\ namedSettings = << >>
  /\ nextId = 1
  /\ rpc = << >>
  /\ rloc = << >>
  /\ hist = << >>

\* values of the capture variables while only the walker runs
captureIdle ==
  /\ action = "none"
  /\ settings = "none"
  /\ inflight = "nil"
  /\ cstack = << >>
  /\ frames = << >>
  /\ calls = << >>
  /\ outcome = "idle"
  /\ deferred = "none"

WalkInit ==
  /\ stack \in Dumps
  /\ checkers \in Policies
  /\ lines = << >>
  /\ i = 0
  /\ directLoc = << >>
  /\ panicLocs = << >>
  /\ pc = "start"
  /\ ret = << >>
  /\ captureIdle
  /\ buildIdle
  /\ settingsIdle
  /\ registryIdle

scanState == [i |-> i, directLoc |-> directLoc, panicLocs |-> panicLocs, raised |-> FALSE]

\* lines 175-184: split the dump, i = 0, directLoc = nil
SplitStack ==
  /\ pc = "start"
  /\ lines' = Split(stack, "\n")
  /\ pc' = "scan"
  /\ UNCHANGED << stack, checkers, i, directLoc, panicLocs, ret >>
  /\ UNCHANGED captureVars
  /\ UNCHANGED settingsVars
  /\ UNCHANGED buildVars
  /\ UNCHANGED registryVars

applyScanStep ==
  LET st == scanStep(lines, checkers, scanState)
  IN /\ i' = st.i
     /\ directLoc' = st.directLoc
     /\ panicLocs' = st.panicLocs
     /\ pc' = IF st.raised THEN "raised" ELSE "scan"
     /\ UNCHANGED << stack, checkers, lines, ret >>
     /\ UNCHANGED captureVars
     /\ UNCHANGED settingsVars
     /\ UNCHANGED buildVars
     /\ UNCHANGED registryVars

\* a Direct is pending and the pair (lines[i-1], lines[i]) is noise
ScanIgnored ==
  /\ pc = "scan" /\ i < Len(lines)
  /\ directLoc # << >>
  /\ isIgnoreLoc(checkers, At(lines, i - 1), At(lines, i))
  /\ applyScanStep

\* a Direct is pending and the pair (lines[i-1], lines[i]) becomes Actual
ScanSelected ==
  /\ pc = "scan" /\ i < Len(lines)
  /\ directLoc # << >>
  /\ ~isIgnoreLoc(checkers, At(lines, i - 1), At(lines, i))
  /\ applyScanStep

\* lines[i] is a trigger marker
ScanMarker ==
  /\ pc = "scan" /\ i < Len(lines)
  /\ directLoc = << >>
  /\ HasPrefix(At(lines, i), panicPrefix)
  /\ applyScanStep

\* any other line
ScanNext ==
  /\ pc = "scan" /\ i < Len(lines)
  /\ directLoc = << >>
  /\ ~HasPrefix(At(lines, i), panicPrefix)
  /\ applyScanStep

\* lines 208-227: the loop is over, build the result
ReturnLocs ==
  /\ pc = "scan" /\ ~(i < Len(lines))
  /\ ret' = finishScan(scanState)
  /\ pc' = "done"
  /\ UNCHANGED << stack, checkers, lines, i, directLoc, panicLocs >>
  /\ UNCHANGED captureVars
  /\ UNCHANGED settingsVars
  /\ UNCHANGED buildVars
  /\ UNCHANGED registryVars

WalkNext ==
  \/ SplitStack
  \/ ScanIgnored
  \/ ScanSelected
  \/ ScanMarker
  \/ ScanNext
  \/ ReturnLocs

SpecWalk == WalkInit /\ [][WalkNext]_vars

\* ------------------------------------------------------------------------
\* Settings and actions
\* ------------------------------------------------------------------------

\* A callback slot of an action is a *func: "nilptr" is the nil pointer,
\* "nilfunc" a pointer to a nil func, "returns" and "panics" point to a
\* function that returns normally, or that panics.  The watch field of a
\* settings object is a func: "nilfunc", "discard", "returns" or "panics".
Slots == {"nilptr", "nilfunc", "returns", "panics"}

WatchFuncs == {"nilfunc", "discard", "returns", "panics"}

Default == [ignoreLocationCheckers |-> << "stdlib" >>, watch |-> "discard", safe |-> FALSE]

\* mutant of fallbackSettings: the fallback settings run callbacks in safe mode
fallbackSettingsSafe == [Default EXCEPT !.safe = TRUE]

\* init(): fallbackSettings = Default()
fallbackSettings == Default

\* settings.newAction: every field but the container is the zero value;
\* the container names the settings object: "settings" or "fallback"
newAction(container) ==
  [a |-> container, safe |-> << >>, alias |-> "", extra |-> "nil",
   always |-> "nilptr", onPanic |-> "nilptr", onSucceed |-> "nilptr"]

Use(container) == newAction(container)

\* staticSettings.load
load(container) ==
  IF container = "fallback" THEN fallbackSettings ELSE settings

\* mutant of needRunFallbackSafe: the override of the action is ignored
needRunFallbackSafeIgnoresOverride(a) == load(a.a).safe

needRunFallbackSafe(a) ==
  IF a.safe # << >> THEN a.safe[1] ELSE load(a.a).safe

\* ------------------------------------------------------------------------
\* postRecover, one activation per frame
\* ------------------------------------------------------------------------

\* mutant of recordAt: the records are visited last to first
recordAtReversed(f) == f.locs[Len(f.locs) - f.idx]

\* the loop variable of "for _, loc := range locs"
recordAt(f) == f.locs[f.idx + 1]

\* mutant of recordSites: onPanic runs before watch
recordSitesSwapped == << "onPanic", "watch" >>

\* the callback sites of the loop body, in the order of the code
recordSites == << "watch", "onPanic" >>

\* postRecover up to the first callback: safe, the dump, findPanics.
\* raised: findPanics panicked, so postRecover is left by that panic.
beginPostRecover(a, ctx, panicErr, text) ==
  LET safe  == needRunFallbackSafe(a)
      found == findPanics(text, load(a.a).ignoreLocationCheckers)
  IN IF panicErr # "nil"
     THEN [raised |-> found.raised,
           frame  |-> [a |-> a, ctx |-> ctx, panicErr |-> panicErr, safe |-> safe,
                       stack |-> text, locs |-> found.locs, idx |-> 0, built |-> 1, pc |-> recordSites[1]]]
     ELSE [raised |-> FALSE,
           frame  |-> [a |-> a, ctx |-> ctx, panicErr |-> panicErr, safe |-> safe,
                       stack |-> << >>, locs |-> << >>, idx |-> 0, built |-> 0, pc |-> "succeed"]]

\* mutant of nextSite: the onSucceed site is not guarded by panicErr == nil
nextSiteSucceedAfterPanic(f) ==
  CASE f.pc = recordSites[1] -> [f EXCEPT !.pc = recordSites[2]]
    [] f.pc = recordSites[2] -> IF f.idx + 1 < Len(f.locs)
                                THEN [f EXCEPT !.idx = @ + 1, !.built = @ + 1,
                                               !.pc = recordSites[1]]
                                ELSE [f EXCEPT !.pc = "succeed"]
    [] f.pc = "succeed"      -> [f EXCEPT !.pc = "always"]
    [] f.pc = "always"       -> [f EXCEPT !.pc = "return"]

\* the frame after the callback site it is at: the two sites of the loop
\* body for each record; always after the last record or after onSucceed
nextSite(f) ==
  CASE f.pc = recordSites[1] -> [f EXCEPT !.pc = recordSites[2]]
    [] f.pc = recordSites[2] -> IF f.idx + 1 < Len(f.locs)
                                THEN [f EXCEPT !.idx = @ + 1, !.built = @ + 1,
                                               !.pc = recordSites[1]]
                                ELSE [f EXCEPT !.pc = "always"]
    [] f.pc = "succeed"      -> [f EXCEPT !.pc = "always"]
    [] f.pc = "always"       -> [f EXCEPT !.pc = "return"]

\* mutant of deref: the slot keeps the function the variable held at first
derefAtBuild(p) == IF p \in DOMAIN cells THEN initialCells[p] ELSE p

\* *p for a callback slot p: a slot that points to a func variable of the
\* caller is read when the site runs; any other slot is its own content
deref(p) == IF p \in DOMAIN cells THEN cells[p] ELSE p

\* the callback a site refers to
slotAt(f) ==
  CASE f.pc = "watch"   -> load(f.a.a).watch
    [] f.pc = "onPanic" -> deref(f.a.onPanic)
    [] f.pc = "succeed" -> deref(f.a.onSucceed)
    [] f.pc = "always"  -> deref(f.a.always)

\* mutant of wrapperAt: the runners are used in unsafe mode too
wrapperAtAlwaysSafe(f) ==
  IF f.pc \in {"watch", "onPanic"} THEN "fallbackSafeRunWithInfo"
  ELSE "fallbackSafeRun"

\* how a site runs its callback: directly, or through one of the runners
wrapperAt(f) ==
  IF ~f.safe THEN "direct"
  ELSE IF f.pc \in {"watch", "onPanic"} THEN "fallbackSafeRunWithInfo"
       ELSE "fallbackSafeRun"

\* What running a slot does.  The direct sites and fallbackSafeRunWithInfo
\* test both the pointer and the func; fallbackSafeRun tests the pointer
\* only, so that a pointer to a nil func is called ("nilcall": a runtime
\* panic without any callback running).
callOutcome(wrapper, slot) ==
  CASE slot = "nilptr"  -> "skip"
    [] slot = "nilfunc" -> IF wrapper = "fallbackSafeRun" THEN "nilcall" ELSE "skip"
    [] slot = "panics"  -> "panicked"
    [] OTHER            -> "returned"

top == frames[Len(frames)]

\* mutant of panicInfo: Alias and Extra are left at their zero values
panicInfoWithoutTags(f) ==
  [Direct  |-> recordAt(f).Direct,
   Actual  |-> recordAt(f).Actual,
   Error   |-> f.panicErr,
   Stack   |-> f.stack,
   Alias   |-> newAction(f.a.a).alias,
   Context |-> f.ctx,
   Extra   |-> newAction(f.a.a).extra]

\* info := PanicInfo{...} of the loop body
panicInfo(f) ==
  [Direct  |-> recordAt(f).Direct,
   Actual  |-> recordAt(f).Actual,
   Error   |-> f.panicErr,
   Stack   |-> f.stack,
   Alias   |-> f.a.alias,
   Context |-> f.ctx,
   Extra   |-> f.a.extra]

\* the entry of the call log for the callback of the top frame
callEntry(f) ==
  [fn    |-> f.pc,
   f     |-> slotAt(f),
   info  |-> IF f.pc \in {"watch", "onPanic"} THEN panicInfo(f) ELSE "none",
   ctx   |-> f.ctx,
   level |-> Len(frames),
   rec   |-> IF f.pc \in {"watch", "onPanic"} THEN f.idx ELSE -1,
   depth |-> IF f.pc \in {"watch", "onPanic"} THEN recordAt(f).Direct.Depth ELSE -1]

\* the dumps runtime.Stack can write during a capture: a chain of k events,
\* each a trigger frame, a library frame and a business frame; and a dump
\* that the buffer cut right after a trigger marker
RECURSIVE chainFrames(_)
chainFrames(k) ==
  IF k = 0 THEN << >> ELSE chainFrames(k - 1) \o << "panic", "fmt", "main" >>

chainText(k) == dumpText(chainFrames(k), 6 * k + 1, TRUE)

cutText == dumpText(<< "panic" >>, 2, FALSE)

\* a chain of two events whose second trigger is the frame right after the
\* library frame of the first one
retriggerText == dumpText(<< "panic", "fmt", "panic", "main" >>, 9, TRUE)

CaptureStacks == {chainText(k) : k \in 0..MaxChain} \cup {cutText, retriggerText}

\* the dumps a nested capture can take (a panic is in flight then): one
\* that findPanics walks to the end, and one that the buffer cut
NestedStacks == {chainText(1), cutText}

\* The callback site of the top frame: skip or run the callback; a panic
\* of a directly run callback leaves every activation (it propagates to
\* the caller of Recover); a panic under a runner is recovered by the
\* deferred Use(fallbackSettings).RecoverWithContext(ctx), a nested
\* activation of postRecover.
runSite ==
  LET f   == top
      res == callOutcome(wrapperAt(f), slotAt(f))
      below == SubSeq(frames, 1, Len(frames) - 1)
  IN /\ calls' = IF res \in {"returned", "panicked"}
                 THEN Append(calls, callEntry(f)) ELSE calls
     /\ IF res \in {"skip", "returned"}
        THEN /\ frames' = Append(below, nextSite(f))
             /\ UNCHANGED outcome
        ELSE IF wrapperAt(f) = "direct"
             THEN /\ frames' = << >>
                  /\ outcome' = "panicked"
             ELSE \E text \in NestedStacks :
                    LET nested == beginPostRecover(Use("fallback"), f.ctx, "err", text)
                    IN IF nested.raised
                       THEN /\ frames' = << >>
                            /\ outcome' = "panicked"
                       ELSE /\ frames' = Append(below, nextSite(f)) \o << nested.frame >>
                            /\ UNCHANGED outcome
     /\ UNCHANGED << action, settings, inflight, cstack, deferred >>
     /\ UNCHANGED walkVars
     /\ UNCHANGED settingsVars
     /\ UNCHANGED buildVars
     /\ UNCHANGED registryVars

\* Recover / RecoverWithContext: recover() and the start of postRecover
enter(ctx) ==
  LET begun == beginPostRecover(action, ctx, inflight, cstack)
  IN /\ outcome = "deferred"
     /\ IF begun.raised
        THEN /\ frames' = << >>
             /\ outcome' = "panicked"
        ELSE /\ frames' = << begun.frame >>
             /\ outcome' = "running"
     /\ UNCHANGED << action, settings, inflight, cstack, calls, deferred >>
     /\ UNCHANGED walkVars
     /\ UNCHANGED settingsVars
     /\ UNCHANGED buildVars
     /\ UNCHANGED registryVars

Recover == deferred.fn = "Recover" /\ enter("background")

\* mutant of RecoverWithContext: the ctx argument is not passed on
RecoverWithContextDropsCtx == deferred.fn = "RecoverWithContext" /\ enter("background")

RecoverWithContext == deferred.fn = "RecoverWithContext" /\ enter(deferred.ctx)

\* the deferred calls a function can register
DeferredCalls ==
  {[fn |-> "Recover", ctx |-> "none"], [fn |-> "RecoverWithContext", ctx |-> "ctx"]}

InvokeWatch == outcome = "running" /\ top.pc = "watch" /\ runSite

InvokeOnPanic == outcome = "running" /\ top.pc = "onPanic" /\ runSite

InvokeOnSucceed == outcome = "running" /\ top.pc = "succeed" /\ runSite

InvokeAlways == outcome = "running" /\ top.pc = "always" /\ runSite

\* postRecover and the deferred call return
Return ==
  /\ outcome = "running" /\ top.pc = "return"
  /\ frames' = SubSeq(frames, 1, Len(frames) - 1)
  /\ outcome' = IF Len(frames) = 1 THEN "returned" ELSE outcome
  /\ UNCHANGED << action, settings, inflight, cstack, calls, deferred >>
  /\ UNCHANGED walkVars
  /\ UNCHANGED settingsVars
  /\ UNCHANGED buildVars
  /\ UNCHANGED registryVars

Actions ==
  {[newAction("settings") EXCEPT !.safe = s, !.alias = "loc1", !.extra = "extra1",
                                 !.always = al, !.onPanic = op, !.onSucceed = os] :
     s \in {<< >>, << TRUE >>, << FALSE >>}, al \in Slots, op \in Slots, os \in Slots}

SettingsValues ==
  {[Default EXCEPT !.watch = w, !.safe = b] : w \in WatchFuncs, b \in BOOLEAN}

\* values of the walker variables while a capture runs
walkIdle ==
  /\ stack = << >>
  /\ checkers = << >>
  /\ lines = << >>
  /\ i = 0
  /\ directLoc = << >>
  /\ panicLocs = << >>
  /\ pc = "idle"
  /\ ret = << >>

Init ==
  /\ action \in Actions
  /\ settings \in SettingsValues
  /\ inflight \in {"nil", "err"}
  /\ cstack \in IF inflight = "nil" THEN {<< >>} ELSE CaptureStacks
  /\ frames = << >>
  /\ calls = << >>
  /\ outcome = "deferred"
  /\ deferred \in DeferredCalls
  /\ walkIdle
  /\ buildIdle
  /\ settingsIdle
  /\ registryIdle

Next ==
  \/ Recover
  \/ RecoverWithContext
  \/ InvokeWatch
  \/ InvokeOnPanic
  \/ InvokeOnSucceed
  \/ InvokeAlways
  \/ Return

Spec == Init /\ [][Next]_vars

\* ------------------------------------------------------------------------
\* Properties of findPanics (checked under SpecWalk)
\* ------------------------------------------------------------------------

\* Go indexes of the lines that start with the trigger marker
markerIndexes == {k \in 0..(Len(lines) - 1) : HasPrefix(At(lines, k), panicPrefix)}

numMarkers == Cardinality(markerIndexes)

firstMarker == CHOOSE k \in markerIndexes : \A j \in markerIndexes : k <= j

\* the function names of the frames the dumps are built from
expectedFunction(funcLine) ==
  CASE funcLine = PanicFuncLine -> << "p", "a", "n", "i", "c" >>
    [] funcLine = FmtFuncLine   -> << "f", "m", "t", ".", "F" >>
    [] funcLine = MainFuncLine  -> << "m", "a", "i", "n", ".", "m" >>
    [] OTHER                    -> funcLine

\* no checker of the list flags any pair of adjacent lines of the dump
noNoise ==
  \A k \in 1..(Len(lines) - 1) : ~isIgnoreLoc(checkers, lines[k], lines[k + 1])

\* C1: a dump with N >= 1 trigger markers yields exactly N records, with
\* depths 0..N-1 in order, depth 0 being the record of the first marker.
C1_OneRecordPerMarker ==
  (pc = "done" /\ numMarkers >= 1) =>
    /\ Len(ret) = numMarkers
    /\ \A k \in 1..Len(ret) :
         ret[k].Direct.Depth = k - 1 /\ ret[k].Actual.Depth = k - 1
    /\ ret[1].Direct.FuncLine = At(lines, firstMarker + 2)

\* C2: findPanics never raises, whatever the dump text is.
C2_NeverRaises == pc # "raised"

\* C3: a dump without a trigger marker yields exactly one record, whose
\* Direct and Actual are the sentinel: File and Function "UNKNOWN", Depth -1.
C3_SentinelWithoutMarker ==
  (pc = "done" /\ numMarkers = 0) =>
    /\ Len(ret) = 1
    /\ ret[1].Direct.File = UNKNOWN /\ ret[1].Direct.Function = UNKNOWN
    /\ ret[1].Direct.Depth = -1
    /\ ret[1].Actual.File = UNKNOWN /\ ret[1].Actual.Function = UNKNOWN
    /\ ret[1].Actual.Depth = -1

C3_Witness ==
  /\ pc = "done" /\ numMarkers = 0
  /\ Len(lines) >= 5
  /\ Len(ret) = 1

\* C4: with an empty ignore list, or one that flags no frame pair of the
\* dump, every returned record has Actual equal to Direct.
C4_ActualIsDirectWithoutNoise ==
  (pc = "done" /\ (checkers = << >> \/ noNoise)) =>
    \A k \in 1..Len(ret) : ret[k].Actual = ret[k].Direct

C4_Witness ==
  /\ pc = "done"
  /\ checkers # << >> /\ noNoise
  /\ Len(ret) = 2
  /\ ret[2].Actual = ret[2].Direct
  /\ ret[2].Direct.Function = expectedFunction(MainFuncLine)

\* C5: one trigger marker, a direct frame the policy flags and a following
\* frame pair it does not flag: one record, Direct.Function of the flagged
\* frame, Actual.Function of the following frame, both depths 0.
C5_NoiseDirectNextActual ==
  (/\ pc = "done"
   /\ numMarkers = 1
   /\ firstMarker + 5 < Len(lines)
   /\ isIgnoreLoc(checkers, At(lines, firstMarker + 2), At(lines, firstMarker + 3))
   /\ ~isIgnoreLoc(checkers, At(lines, firstMarker + 4), At(lines, firstMarker + 5))) =>
    /\ Len(ret) = 1
    /\ ret[1].Direct.Function = expectedFunction(At(lines, firstMarker + 2))
    /\ ret[1].Actual.Function = expectedFunction(At(lines, firstMarker + 4))
    /\ ret[1].Direct.Depth = 0 /\ ret[1].Actual.Depth = 0

C5_Witness ==
  /\ pc = "done"
  /\ numMarkers = 1
  /\ firstMarker + 5 < Len(lines)
  /\ checkers = << "stdlib" >>
  /\ At(lines, firstMarker + 2) = FmtFuncLine
  /\ At(lines, firstMarker + 4) = MainFuncLine
  /\ Len(ret) = 1
  /\ ret[1].Actual.Function # ret[1].Direct.Function

\* a single trigger marker followed by at least one complete frame pair
wellFormedSingle ==
  /\ pc # "start"
  /\ numMarkers = 1
  /\ firstMarker + 3 < Len(lines)

\* C6: a well-formed dump with exactly one trigger marker yields exactly one
\* record, and its Direct.Depth and Actual.Depth are 0.
C6_SingleTriggerDepthZero ==
  wellFormedSingle =>
    /\ pc # "raised"
    /\ pc = "done" =>
         /\ Len(ret) = 1
         /\ ret[1].Direct.Depth = 0 /\ ret[1].Actual.Depth = 0

C6_Witness ==
  /\ wellFormedSingle
  /\ pc = "done"
  /\ Len(ret) = 1
  /\ ret[1].Direct.Function = expectedFunction(MainFuncLine)

\* ------------------------------------------------------------------------
\* Properties of a capture (checked under Spec)
\* ------------------------------------------------------------------------

\* positions in the call log of the callbacks the capture itself invoked
\* (level 1; the nested fallback captures log at level 2)
ownCalls == {k \in 1..Len(calls) : calls[k].level = 1}

ownCallsOf(fn) == {k \in ownCalls : calls[k].fn = fn}

isSet(slot) == slot \in {"returns", "panics"}

finished == outcome \in {"returned", "panicked"}

\* C7: in every capture, also when another callback unwinds, the always
\* callback (if set) is invoked exactly once and is the last callback invoked.
C7_AlwaysOnceAndLast ==
  (finished /\ isSet(action.always)) =>
    /\ Cardinality(ownCallsOf("always")) = 1
    /\ \A k \in ownCalls : \A l \in ownCallsOf("always") : k <= l

\* the capture is past its onSucceed site
pastSucceed ==
  \/ finished
  \/ outcome = "running" /\ frames[1].pc \in {"always", "return"}

\* C8: a capture that recovered nil invokes onSucceed (if set) exactly once,
\* invokes neither onPanic nor watch and builds no PanicInfo; a capture that
\* recovered a non-nil value (the outer one or a nested one) never invokes
\* onSucceed.
C8_SucceedIffNoUnwind ==
  /\ \A k \in 1..Len(calls) : calls[k].level > 1 => calls[k].fn # "succeed"
  /\ \A k \in 1..Len(frames) :
       /\ frames[k].panicErr = "nil" => (k = 1 /\ frames[k].built = 0 /\ frames[k].locs = << >>)
       /\ k > 1 => frames[k].panicErr # "nil"
  /\ inflight # "nil" => ownCallsOf("succeed") = {}
  /\ inflight = "nil" =>
       /\ ownCallsOf("watch") = {} /\ ownCallsOf("onPanic") = {}
       /\ (pastSucceed /\ isSet(action.onSucceed)) =>
            Cardinality(ownCallsOf("succeed")) = 1

C8_Witness ==
  /\ outcome = "returned"
  /\ inflight = "nil"
  /\ action.onSucceed = "returns" /\ action.onPanic = "returns"
  /\ settings.watch = "returns"
  /\ Cardinality(ownCallsOf("succeed")) = 1

\* C9 as stated: for each record, onPanic is invoked before watch.
C9_OnPanicBeforeWatch ==
  \A j \in ownCallsOf("onPanic") : \A k \in ownCallsOf("watch") :
    calls[j].rec = calls[k].rec => j < k

\* C9 as amended: for each record, in safe and in unsafe mode, the watch
\* callback of the configuration (if set) is invoked before the action's
\* onPanic callback (if set) for that same record.
C9_WatchBeforeOnPanic ==
  /\ \A j \in ownCallsOf("onPanic") : \A k \in ownCallsOf("watch") :
       calls[j].rec = calls[k].rec => k < j
  /\ \A j \in ownCallsOf("onPanic") :
       settings.watch # "nilfunc" =>
         \E k \in ownCallsOf("watch") : calls[k].rec = calls[j].rec /\ k < j

C9_Witness ==
  /\ outcome = "returned"
  /\ needRunFallbackSafe(action)
  /\ \E j \in ownCallsOf("onPanic") : \E k \in ownCallsOf("watch") :
       calls[j].rec = 1 /\ calls[k].rec = 1 /\ k < j

\* positions of the callbacks invoked for a record
recordCalls == {k \in ownCalls : calls[k].rec >= 0}

\* C10: within one capture the callbacks are invoked for the records in
\* increasing depth, starting at depth 0: every callback for depth k comes
\* before every callback for depth k+1, and no depth is passed over.
C10_RecordsInDepthOrder ==
  /\ \A j \in recordCalls : \A k \in recordCalls :
       j < k => calls[j].depth <= calls[k].depth
  /\ \A k \in recordCalls :
       calls[k].depth > 0 =>
         \E j \in recordCalls : j < k /\ calls[j].depth = calls[k].depth - 1
  /\ \A k \in recordCalls : calls[k].depth = calls[k].rec \/ calls[k].depth = -1

C10_Witness ==
  /\ outcome = "returned"
  /\ \E k \in ownCallsOf("onPanic") : calls[k].depth = 1
  /\ \E k \in ownCallsOf("watch") : calls[k].depth = 1
  /\ \E k \in ownCallsOf("onPanic") : calls[k].depth = 0
  /\ \E k \in ownCallsOf("watch") : calls[k].depth = 0

\* ------------------------------------------------------------------------
\* Safe mode, absent callbacks and the context (checked under Spec)
\* ------------------------------------------------------------------------

\* the rule of C11, written out for the four combinations
effectiveSafe ==
  IF action.safe = << TRUE >> THEN TRUE
  ELSE IF action.safe = << FALSE >> THEN FALSE
  ELSE settings.safe

\* positions of the capture's own callbacks that unwound
ownPanics == {k \in ownCalls : calls[k].f = "panics"}

\* C11: the effective safe mode of a capture is the action's Safe(b)
\* override when one was set, and the safe flag of its configuration
\* otherwise: callbacks run under the fallback runner exactly in that mode.
C11_EffectiveSafe ==
  /\ outcome = "running" => frames[1].safe = effectiveSafe
  /\ ~effectiveSafe => (Len(frames) <= 1 /\ \A k \in 1..Len(calls) : calls[k].level = 1)
  /\ (effectiveSafe /\ outcome = "running" /\ Len(calls) \in ownPanics) => Len(frames) = 2

C11_Witness ==
  /\ outcome = "running"
  /\ action.safe = << FALSE >> /\ settings.safe
  /\ ~frames[1].safe
  /\ frames[1].pc = "always"

\* C12: in safe mode a capture in which a callback unwinds returns
\* normally; the secondary unwind never reaches the caller.
C12_SafeNeverPropagates ==
  (effectiveSafe /\ ownPanics # {}) => outcome # "panicked"

\* C13: in unsafe mode an unwind raised by onSucceed, onPanic, watch or
\* always is not recovered: it ends the capture at once and reaches the caller.
C13_UnsafePropagates ==
  (~effectiveSafe /\ ownPanics # {}) =>
    /\ outcome = "panicked"
    /\ frames = << >>
    /\ ownPanics = {Len(calls)}

C13_Witness ==
  /\ outcome = "panicked"
  /\ action.safe = << FALSE >> /\ settings.safe
  /\ Len(calls) >= 2
  /\ calls[Len(calls)].fn = "always" /\ calls[Len(calls)].f = "panics"

\* every callback slot of the action is a nil pointer or points to a nil func
callbacksAbsent ==
  /\ action.always \in {"nilptr", "nilfunc"}
  /\ action.onPanic \in {"nilptr", "nilfunc"}
  /\ action.onSucceed \in {"nilptr", "nilfunc"}

\* C14: a capture whose callbacks are absent (nil reference or reference to
\* a nil function) returns normally in safe and in unsafe mode, the absent
\* callback being treated as not set.
C14_AbsentCallbackNeverFails ==
  (callbacksAbsent /\ settings.watch # "panics" /\ cstack # cutText) =>
    /\ outcome # "panicked"
    /\ Len(frames) <= 1

\* the context of the deferred call
expectedCtx == IF deferred.fn = "Recover" THEN "background" ELSE deferred.ctx

\* C20: every PanicInfo of a capture by RecoverWithContext(ctx) carries ctx,
\* every PanicInfo of a capture by Recover the background context, for
\* every record of the chain.
C20_ContextOnEveryRecord ==
  /\ outcome = "running" => frames[1].ctx = expectedCtx
  /\ \A k \in recordCalls : calls[k].ctx = expectedCtx

C20_Witness ==
  /\ outcome = "returned"
  /\ deferred.fn = "RecoverWithContext"
  /\ \E k \in ownCallsOf("onPanic") : calls[k].rec = 1 /\ calls[k].ctx = "ctx"
  /\ \E k \in ownCallsOf("watch") : calls[k].rec = 0 /\ calls[k].ctx = "ctx"

\* ------------------------------------------------------------------------
\* The named registry: StoreSettings and nameLazySettings.load, run by
\* goroutines that interleave between the calls on the sync.Map
\* ------------------------------------------------------------------------

\* largest number of registry operations started in one behaviour
MaxOps == 3

Procs == {1, 2}

Names == {"x", "y"}

\* a settings instance is identified by its allocation number; 0 is "no entry"
noSettings == 0

\* number of operations started so far
opsStarted == Cardinality({k \in 1..Len(hist) : hist[k].ev \in {"call", "store"}})

\* mutant of storeOnMiss: the default created on a miss is not stored
storeOnMissForgotten(reg, name, id) == reg

\* namedSettings.Store(a.name, s2) of load
storeOnMiss(reg, name, id) == [reg EXCEPT ![name] = id]

\* mutant of lookupNamed: the lookup never finds the entry
lookupNamedMissing(reg, name) == noSettings

\* namedSettings.Load(a.name) of load: the entry, or noSettings when !ok
lookupNamed(reg, name) == reg[name]

RegistryInit ==
  /\ namedSettings = [n \in Names |-> noSettings]
  /\ nextId = 1
  /\ rpc = [p \in Procs |-> "idle"]
  /\ rloc = [p \in Procs |-> [name |-> "x", s2 |-> noSettings]]
  /\ hist = << >>
  /\ walkIdle
  /\ captureIdle
  /\ buildIdle
  /\ settingsIdle

\* a goroutine calls load of nameLazySettings{name}
CallLoad(p, name) ==
  /\ rpc[p] = "idle"
  /\ opsStarted < MaxOps
  /\ rpc' = [rpc EXCEPT ![p] = "lookup"]
  /\ rloc' = [rloc EXCEPT ![p] = [name |-> name, s2 |-> noSettings]]
  /\ hist' = Append(hist, [ev |-> "call", p |-> p, name |-> name, id |-> noSettings])
  /\ UNCHANGED << namedSettings, nextId >>
  /\ UNCHANGED walkVars
  /\ UNCHANGED settingsVars
  /\ UNCHANGED captureVars
  /\ UNCHANGED buildVars

\* s, ok := namedSettings.Load(a.name)
LoadLookup(p) ==
  /\ rpc[p] = "lookup"
  /\ IF lookupNamed(namedSettings, rloc[p].name) # noSettings
     THEN /\ rloc' = [rloc EXCEPT ![p].s2 = lookupNamed(namedSettings, rloc[p].name)]
          /\ rpc' = [rpc EXCEPT ![p] = "return"]
     ELSE /\ rpc' = [rpc EXCEPT ![p] = "create"]
          /\ UNCHANGED rloc
  /\ UNCHANGED << namedSettings, nextId, hist >>
  /\ UNCHANGED walkVars
  /\ UNCHANGED settingsVars
  /\ UNCHANGED captureVars
  /\ UNCHANGED buildVars

\* s2 = Default(); namedSettings.Store(a.name, s2)
LoadCreate(p) ==
  /\ rpc[p] = "create"
  /\ rloc' = [rloc EXCEPT ![p].s2 = nextId]
  /\ nextId' = nextId + 1
  /\ namedSettings' = storeOnMiss(namedSettings, rloc[p].name, nextId)
  /\ rpc' = [rpc EXCEPT ![p] = "return"]
  /\ UNCHANGED hist
  /\ UNCHANGED walkVars
  /\ UNCHANGED settingsVars
  /\ UNCHANGED captureVars
  /\ UNCHANGED buildVars

\* return s2
LoadReturn(p) ==
  /\ rpc[p] = "return"
  /\ hist' = Append(hist, [ev |-> "ret", p |-> p, name |-> rloc[p].name, id |-> rloc[p].s2])
  /\ rpc' = [rpc EXCEPT ![p] = "idle"]
  /\ UNCHANGED << namedSettings, nextId, rloc >>
  /\ UNCHANGED walkVars
  /\ UNCHANGED settingsVars
  /\ UNCHANGED captureVars
  /\ UNCHANGED buildVars

\* StoreSettings(name, a) with a settings instance the caller has made
StoreSettings(p, name) ==
  /\ rpc[p] = "idle"
  /\ opsStarted < MaxOps
  /\ namedSettings' = [namedSettings EXCEPT ![name] = nextId]
  /\ nextId' = nextId + 1
  /\ hist' = Append(hist, [ev |-> "store", p |-> p, name |-> name, id |-> nextId])
  /\ UNCHANGED << rpc, rloc >>
  /\ UNCHANGED walkVars
  /\ UNCHANGED settingsVars
  /\ UNCHANGED captureVars
  /\ UNCHANGED buildVars

RegistryNext ==
  \/ \E p \in Procs : \E name \in Names : CallLoad(p, name)
  \/ \E p \in Procs : LoadLookup(p)
  \/ \E p \in Procs : LoadCreate(p)
  \/ \E p \in Procs : LoadReturn(p)
  \/ \E p \in Procs : \E name \in Names : StoreSettings(p, name)

SpecRegistry == RegistryInit /\ [][RegistryNext]_vars

\* ------------------------------------------------------------------------
\* Properties of the registry (checked under SpecRegistry)
\* ------------------------------------------------------------------------

\* positions of the returns of load(name)
loadReturns(name) == {k \in 1..Len(hist) : hist[k].ev = "ret" /\ hist[k].name = name}

\* positions of the StoreSettings(name, _) calls
storesOf(name) == {k \in 1..Len(hist) : hist[k].ev = "store" /\ hist[k].name = name}

\* C15: when several captures load a name that is not in the registry and
\* nobody stores it explicitly, all of them obtain the same instance, and
\* it is the one left in the registry.
C15_LazyCreateIsAtomic ==
  \A name \in Names :
    storesOf(name) = {} =>
      \A k \in loadReturns(name) :
        /\ hist[k].id = namedSettings[name]
        /\ \A j \in loadReturns(name) : hist[j].id = hist[k].id

\* every operation returns before the next one is called
sequential ==
  \A k \in 1..Len(hist) :
    hist[k].ev = "call" =>
      (k = Len(hist) \/ (hist[k + 1].ev = "ret" /\ hist[k + 1].p = hist[k].p))

\* C17: in a sequential execution two loads of a name with no StoreSettings
\* of that name in between return the same instance, also when the first
\* load is the one that creates the default.
C17_SequentialLoadsAgree ==
  sequential =>
    \A name \in Names : \A j \in loadReturns(name) : \A k \in loadReturns(name) :
      (j < k /\ \A s \in storesOf(name) : ~(j < s /\ s < k)) =>
        /\ hist[j].id = hist[k].id
        /\ hist[j].id # noSettings

C17_Witness ==
  /\ sequential
  /\ Len(hist) = 4
  /\ storesOf("x") = {}
  /\ loadReturns("x") = {2, 4}
  /\ hist[2].p # hist[4].p
  /\ hist[2].id = 1 /\ hist[4].id = 1

\* position of the call event of the load that returns at position k
callOf(k) ==
  CHOOSE j \in 1..k :
    /\ hist[j].ev = "call" /\ hist[j].p = hist[k].p /\ j < k
    /\ \A m \in (j + 1)..(k - 1) : ~(hist[m].ev = "call" /\ hist[m].p = hist[k].p)

\* C16: once StoreSettings(name, c) has returned and no later StoreSettings
\* of that name happened, c is the registry's entry and every load of the
\* name called afterwards returns c, also when a lazy load overlaps the
\* store.
C16_StoredConfigWins ==
  \A name \in Names : \A s \in storesOf(name) :
    (\A t \in storesOf(name) : t <= s) =>
      /\ namedSettings[name] = hist[s].id
      /\ \A k \in loadReturns(name) : callOf(k) > s => hist[k].id = hist[s].id

\* ------------------------------------------------------------------------
\* Building an action with the builder methods, then deferring its capture
\* ------------------------------------------------------------------------

\* largest number of builder calls and assignments before the defer
MaxBuild == 2

\* mutant of valueReceiver: the methods have a pointer receiver
pointerReceiver(a, changed) == [recv |-> changed, result |-> changed]

\* "func (a action) M(...) action { a.field = ...; return a }": the method
\* works on a copy of the receiver and returns the copy
valueReceiver(a, changed) == [recv |-> a, result |-> changed]

Always(a, f) == valueReceiver(a, [a EXCEPT !.always = f])

\* mutant of AlwaysStatic: a callback that is already set is kept
AlwaysStaticKeepsFirst(a, f) ==
  valueReceiver(a, IF a.always = "nilptr" THEN [a EXCEPT !.always = f] ELSE a)

\* &f points to the parameter, a private variable that holds f for good
AlwaysStatic(a, f) == valueReceiver(a, [a EXCEPT !.always = f])

Succeed(a, f) == valueReceiver(a, [a EXCEPT !.onSucceed = f])

SucceedStatic(a, f) == valueReceiver(a, [a EXCEPT !.onSucceed = f])

Panic(a, f) == valueReceiver(a, [a EXCEPT !.onPanic = f])

PanicStatic(a, f) == valueReceiver(a, [a EXCEPT !.onPanic = f])

Safe(a, safe) == valueReceiver(a, [a EXCEPT !.safe = << safe >>])

Alias(a, alias) == valueReceiver(a, [a EXCEPT !.alias = alias])

WithExtra(a, extra) == valueReceiver(a, [a EXCEPT !.extra = extra])

\* the functions a caller passes by value; "f" is the function its func
\* variables hold at first
StaticFuncs == {"f", "g", "h"}

\* the builder calls a caller makes: method and argument
BuilderCalls ==
  {[method |-> "Always", arg |-> p] : p \in {"nilptr", "&alwaysF"}}
    \cup {[method |-> "AlwaysStatic", arg |-> f] : f \in StaticFuncs}
    \cup {[method |-> "Succeed", arg |-> p] : p \in {"nilptr", "&onSucceedF"}}
    \cup {[method |-> "SucceedStatic", arg |-> f] : f \in StaticFuncs}
    \cup {[method |-> "Panic", arg |-> p] : p \in {"nilptr", "&onPanicF"}}
    \cup {[method |-> "PanicStatic", arg |-> f] : f \in StaticFuncs}
    \cup {[method |-> "Safe", arg |-> b] : b \in BOOLEAN}
    \cup {[method |-> "Alias", arg |-> s] : s \in {"loc1", "loc2"}}
    \cup {[method |-> "WithExtra", arg |-> e] : e \in {"extra1", "extra2"}}

callMethod(call, a) ==
  CASE call.method = "Always"        -> Always(a, call.arg)
    [] call.method = "AlwaysStatic"  -> AlwaysStatic(a, call.arg)
    [] call.method = "Succeed"       -> Succeed(a, call.arg)
    [] call.method = "SucceedStatic" -> SucceedStatic(a, call.arg)
    [] call.method = "Panic"         -> Panic(a, call.arg)
    [] call.method = "PanicStatic"   -> PanicStatic(a, call.arg)
    [] call.method = "Safe"          -> Safe(a, call.arg)
    [] call.method = "Alias"         -> Alias(a, call.arg)
    [] call.method = "WithExtra"     -> WithExtra(a, call.arg)

noDeferred == [fn |-> "none", ctx |-> "none"]

\* a := panics.Use(s), with s the default settings; nothing deferred yet
BuildInit ==
  /\ action = Use("settings")
  /\ settings = Default
  /\ inflight = "nil"
  /\ cstack = << >>
  /\ frames = << >>
  /\ calls = << >>
  /\ outcome = "building"
  /\ deferred = noDeferred
  /\ template = "none"
  /\ cells = initialCells
  /\ chain = << >>
  /\ walkIdle
  /\ registryIdle
  /\ settingsIdle

\* prev, a = a, a.M(arg): template is the receiver variable after the call
Build ==
  \E call \in BuilderCalls :
    LET r == callMethod(call, action)
    IN /\ outcome = "building"
       /\ Len(chain) < MaxBuild
       /\ template' = r.recv
       /\ action' = r.result
       /\ chain' = Append(chain, [method |-> call.method, arg |-> call.arg,
                                  before |-> action, recv |-> r.recv,
                                  result |-> r.result])
       /\ UNCHANGED << settings, inflight, cstack, frames, calls, outcome,
                       deferred, cells >>
       /\ UNCHANGED walkVars
       /\ UNCHANGED settingsVars
       /\ UNCHANGED registryVars

\* the caller assigns another function to one of its func variables, while
\* it builds the action or in the function body after the defer statement
Assign ==
  \E c \in CellNames :
    /\ outcome \in {"building", "deferred"}
    /\ Len(chain) < MaxBuild
    /\ cells' = [cells EXCEPT ![c] = "f2"]
    /\ chain' = Append(chain, [method |-> "assign", arg |-> c, before |-> action,
                               recv |-> action, result |-> action, at |-> outcome])
    /\ UNCHANGED << action, settings, inflight, cstack, frames, calls, outcome,
                    deferred, template >>
    /\ UNCHANGED walkVars
    /\ UNCHANGED settingsVars
    /\ UNCHANGED registryVars

\* defer a.Recover() or defer a.RecoverWithContext(ctx), and the function
\* body: it returns, or it panics once
Defer ==
  \E d \in DeferredCalls : \E err \in {"nil", "err"} :
    /\ outcome = "building"
    /\ deferred' = d
    /\ inflight' = err
    /\ cstack' = IF err = "nil" THEN << >> ELSE chainText(1)
    /\ outcome' = "deferred"
    /\ UNCHANGED << action, settings, frames, calls >>
    /\ UNCHANGED buildVars
    /\ UNCHANGED walkVars
    /\ UNCHANGED settingsVars
    /\ UNCHANGED registryVars

BuildNext ==
  \/ Build
  \/ Assign
  \/ Defer
  \/ Recover
  \/ RecoverWithContext
  \/ InvokeWatch
  \/ InvokeOnPanic
  \/ InvokeOnSucceed
  \/ InvokeAlways
  \/ Return

SpecBuild == BuildInit /\ [][BuildNext]_vars

\* ------------------------------------------------------------------------
\* Properties of the builder (checked under SpecBuild)
\* ------------------------------------------------------------------------

\* the field a builder method sets
fieldOf(method) ==
  CASE method \in {"Always", "AlwaysStatic"}   -> "always"
    [] method \in {"Succeed", "SucceedStatic"} -> "onSucceed"
    [] method \in {"Panic", "PanicStatic"}     -> "onPanic"
    [] method = "Safe"                         -> "safe"
    [] method = "Alias"                        -> "alias"
    [] method = "WithExtra"                    -> "extra"

\* the value a builder call is to leave in its field
givenValue(e) == IF e.method = "Safe" THEN << e.arg >> ELSE e.arg

builderCalls == {k \in 1..Len(chain) : chain[k].method # "assign"}

\* C18: every builder method leaves its receiver unchanged and returns an
\* action that holds the given value in the method's field and equals the
\* receiver in every other field.
C18_BuilderLeavesReceiver ==
  /\ \A k \in builderCalls :
       LET e == chain[k]
       IN /\ e.recv = e.before
          /\ e.result[fieldOf(e.method)] = givenValue(e)
          /\ \A fld \in DOMAIN e.before :
               fld # fieldOf(e.method) => e.result[fld] = e.before[fld]
  /\ (builderCalls # {} /\ Len(chain) \in builderCalls) =>
       (template = chain[Len(chain)].before /\ action = chain[Len(chain)].result)

C18_Witness ==
  /\ outcome = "building"
  /\ Len(chain) = 2
  /\ chain[1].method = "PanicStatic" /\ chain[2].method = "Safe"
  /\ template.safe = << >> /\ template.onPanic = "g"
  /\ action.safe = << TRUE >> /\ action.onPanic = "g"

\* the calls of the chain that set the field
settersOf(fld) == {k \in builderCalls : fieldOf(chain[k].method) = fld}

lastSetter(fld) == CHOOSE k \in settersOf(fld) : \A j \in settersOf(fld) : j <= k

siteField(fn) ==
  CASE fn = "always"  -> "always"
    [] fn = "succeed" -> "onSucceed"
    [] fn = "onPanic" -> "onPanic"

\* C19: a builder method called again replaces the value of the earlier
\* call: every field holds the value of the last call that sets it, and a
\* capture invokes at a callback site only the function of that last call,
\* once per record (once per capture for onSucceed and always).
C19_LastCallWins ==
  /\ \A fld \in {"always", "onSucceed", "onPanic", "safe", "alias", "extra"} :
       settersOf(fld) # {} => action[fld] = givenValue(chain[lastSetter(fld)])
  /\ \A fn \in {"always", "succeed", "onPanic"} :
       /\ Cardinality(ownCallsOf(fn)) <= 1
       /\ \A k \in ownCallsOf(fn) :
            /\ settersOf(siteField(fn)) # {}
            /\ calls[k].f = deref(givenValue(chain[lastSetter(siteField(fn))]))

C19_Witness ==
  /\ outcome = "returned"
  /\ Len(chain) = 2
  /\ chain[1].method = "AlwaysStatic" /\ chain[1].arg = "g"
  /\ chain[2].method = "AlwaysStatic" /\ chain[2].arg = "h"
  /\ Len(calls) = 1
  /\ calls[1].fn = "always" /\ calls[1].f = "h"

\* ------------------------------------------------------------------------
\* Properties of the records of findPanics (checked under SpecWalk)
\* ------------------------------------------------------------------------

\* the markers that have a whole frame pair after the trigger's own frame
recordMarkers == {p \in markerIndexes : p + 3 < Len(lines)}

\* the frame pair right after the trigger's own two-line frame
directAt(p) == parseLocation(At(lines, p + 2), At(lines, p + 3))

atDepth(pos, d) == [pos EXCEPT !.Depth = d]

\* C26: the Direct of a record is parsed from lines p+2 and p+3 of a trigger
\* marker at line p, whatever the ignore policy is and also when the policy
\* flags that frame; the first record's marker is the first one of the dump.
C26_DirectIsFrameAfterMarker ==
  /\ directLoc # << >> =>
       \E p \in recordMarkers : p + 3 <= i /\ directLoc[1] = directAt(p)
  /\ \A k \in 1..Len(panicLocs) :
       \E p \in recordMarkers : p + 3 < i /\ panicLocs[k].Direct = directAt(p)
  /\ (pc = "done" /\ numMarkers >= 1) =>
       /\ ret[1].Direct = atDepth(directAt(firstMarker), 0)
       /\ \A k \in 1..Len(ret) :
            \E p \in recordMarkers : ret[k].Direct = atDepth(directAt(p), k - 1)

C26_Witness ==
  /\ pc = "done"
  /\ checkers = << "all" >>
  /\ numMarkers = 2
  /\ Len(ret) = 1
  /\ isIgnoreLoc(checkers, At(lines, firstMarker + 2), At(lines, firstMarker + 3))
  /\ ret[1].Direct.Function = expectedFunction(FmtFuncLine)

\* the file lines of the frame pairs from line first on, in step with the
\* frame pair of the marker at p, that the policy does not flag
unflaggedFrom(p, first) ==
  {j \in first..(Len(lines) - 1) :
     /\ (j - p) % 2 = 1
     /\ ~isIgnoreLoc(checkers, At(lines, j - 1), At(lines, j))}

\* the first unflagged frame pair from line first on, or Direct
actualFrom(p, first) ==
  IF unflaggedFrom(p, first) = {} THEN directAt(p)
  ELSE LET j == CHOOSE j \in unflaggedFrom(p, first) :
                  \A m \in unflaggedFrom(p, first) : j <= m
       IN parseLocation(At(lines, j - 1), At(lines, j))

\* C27 as stated: Actual is the first unflagged frame pair strictly after
\* the Direct frame (the Direct frame is no candidate), or Direct if there
\* is none.
C27_ActualStrictlyAfterDirect ==
  (pc = "done" /\ numMarkers >= 1) =>
    \A k \in 1..Len(ret) :
      \E p \in recordMarkers :
        /\ ret[k].Direct = atDepth(directAt(p), k - 1)
        /\ ret[k].Actual = atDepth(actualFrom(p, p + 5), k - 1)

\* C27, amended: Actual is the first unflagged frame pair starting with the
\* Direct frame itself, or Direct if every pair up to the end is flagged.
C27_ActualFromDirectOn ==
  (pc = "done" /\ numMarkers >= 1) =>
    \A k \in 1..Len(ret) :
      \E p \in recordMarkers :
        /\ ret[k].Direct = atDepth(directAt(p), k - 1)
        /\ ret[k].Actual = atDepth(actualFrom(p, p + 3), k - 1)

C27_Witness ==
  /\ pc = "done"
  /\ checkers = << "none", "fmt" >>
  /\ numMarkers = 1
  /\ firstMarker + 7 < Len(lines)
  /\ At(lines, firstMarker + 2) = FmtFuncLine
  /\ At(lines, firstMarker + 4) = FmtFuncLine
  /\ At(lines, firstMarker + 6) = MainFuncLine
  /\ Len(ret) = 1
  /\ ret[1].Direct.Function = expectedFunction(FmtFuncLine)
  /\ ret[1].Actual.Function = expectedFunction(MainFuncLine)

\* C28: when the scan reaches the end of the dump with a Direct pending,
\* findPanics returns the records found before and one more record for the
\* pending event, with Actual equal to Direct and the next depth.
C28_PendingDirectAtEnd ==
  (pc = "done" /\ directLoc # << >>) =>
    /\ Len(ret) = Len(panicLocs) + 1
    /\ ret[Len(ret)].Direct = atDepth(directLoc[1], Len(panicLocs))
    /\ ret[Len(ret)].Actual = ret[Len(ret)].Direct
    /\ \A k \in 1..Len(panicLocs) :
         /\ ret[k].Direct = atDepth(panicLocs[k].Direct, k - 1)
         /\ ret[k].Actual = atDepth(panicLocs[k].Actual, k - 1)

C28_Witness ==
  /\ pc = "done" /\ directLoc # << >>
  /\ checkers = << "stdlib" >>
  /\ Len(panicLocs) = 1
  /\ Len(ret) = 2
  /\ ret[1].Actual.Function = expectedFunction(MainFuncLine)
  /\ ret[2].Direct.Function = expectedFunction(FmtFuncLine)
  /\ ret[2].Actual.Depth = 1

\* C29: findPanics terminates on every dump and every policy: each
\* iteration of the loop increases the scan index, which the loop condition
\* bounds by the number of lines, and a returned list has at least one record.
C29_TerminatesWithRecord ==
  /\ [][(pc = "scan" /\ pc' = "scan") => (i < Len(lines) /\ i' > i)]_vars
  /\ [](pc = "scan" => i <= Len(lines) + 1)
  /\ [](pc = "done" => Len(ret) >= 1)

C29_Witness ==
  /\ pc = "done"
  /\ checkers = << "all" >>
  /\ numMarkers >= 1
  /\ i > Len(lines)
  /\ Len(ret) = 1

\* ------------------------------------------------------------------------
\* More properties of a capture (checked under Spec)
\* ------------------------------------------------------------------------

nestedCalls == {k \in 1..Len(calls) : calls[k].level >= 2}

\* C22: a callback run by a runner is recovered by one nested capture with
\* the fallback settings; that capture is not in safe mode and has no
\* callback of its own to wrap (it only calls the fallback watch, for its
\* one record), so a capture never nests deeper than one level.
C22_NestingAtMostOne ==
  /\ Len(frames) <= 2
  /\ \A k \in 1..Len(calls) : calls[k].level <= 2
  /\ Len(frames) = 2 =>
       /\ frames[1].safe
       /\ ~frames[2].safe
       /\ frames[2].a = newAction("fallback")
       /\ wrapperAt(frames[2]) = "direct"
       /\ frames[1].pc # "watch" \/ frames[1].idx > 0
  /\ \A k \in nestedCalls :
       /\ calls[k].fn = "watch" /\ calls[k].f = "discard"
       /\ calls[k].rec = 0
       /\ effectiveSafe

C22_Witness ==
  /\ outcome = "returned"
  /\ Len(calls) = 4
  /\ calls[1].fn = "watch" /\ calls[1].f = "panics" /\ calls[1].level = 1
  /\ calls[2].fn = "watch" /\ calls[2].level = 2
  /\ calls[3].fn = "always" /\ calls[3].f = "panics" /\ calls[3].level = 1
  /\ calls[4].fn = "watch" /\ calls[4].level = 2

\* the number of unwind events of a dump: its trigger markers
events(text) ==
  LET ls == Split(text, "\n")
  IN Cardinality({k \in 0..(Len(ls) - 1) : HasPrefix(At(ls, k), panicPrefix)})

noFailingCallback ==
  \A k \in 1..Len(calls) : calls[k].level = 1 /\ calls[k].f # "panics"

\* C25: a capture with an unwind in flight and no failing callback invokes
\* the watch of its settings exactly once per record, with that record,
\* with or without an onPanic callback: N times for a chain of N events.
C25_WatchOncePerEvent ==
  (/\ outcome = "returned"
   /\ inflight = "err"
   /\ events(cstack) >= 1
   /\ settings.watch \in {"discard", "returns"}
   /\ noFailingCallback) =>
    /\ Cardinality(ownCallsOf("watch")) = events(cstack)
    /\ \A d \in 0..(events(cstack) - 1) :
         Cardinality({k \in ownCallsOf("watch") :
                        calls[k].rec = d /\ calls[k].depth = d}) = 1

\* ------------------------------------------------------------------------
\* More properties of the builder (checked under SpecBuild)
\* ------------------------------------------------------------------------

\* the assignments to the func variable made after the defer statement
reassignedAfterDefer(c) ==
  {k \in 1..Len(chain) :
     chain[k].method = "assign" /\ chain[k].arg = c /\ chain[k].at = "deferred"}

\* C23: a callback given by reference is read when the capture runs: after
\* the variable was reassigned (also after the defer statement) the capture
\* invokes the function the variable holds then, never the one it held when
\* the action was built; a callback given with a Static method is the
\* function passed to the method, whatever is assigned afterwards.
C23_ReferenceReadAtCapture ==
  \A fn \in {"always", "succeed", "onPanic"} : \A k \in ownCallsOf(fn) :
    LET slot == action[siteField(fn)]
    IN IF slot \in CellNames
       THEN /\ calls[k].f = cells[slot]
            /\ reassignedAfterDefer(slot) # {} =>
                 (calls[k].f = "f2" /\ calls[k].f # initialCells[slot])
       ELSE calls[k].f = slot

C23_Witness ==
  /\ outcome = "returned"
  /\ Len(chain) = 2
  /\ chain[1].method = "Always" /\ chain[1].arg = "&alwaysF"
  /\ reassignedAfterDefer("&alwaysF") = {2}
  /\ Len(calls) = 1
  /\ calls[1].fn = "always" /\ calls[1].f = "f2"

\* ------------------------------------------------------------------------
\* The settings objects: the process-wide default one, the fallback one and
\* those a caller makes with Default(), changed by the public setters
\* ------------------------------------------------------------------------

\* largest number of public operations on settings in one behaviour
MaxSettingsOps == 3

\* init(): globalSettings = &staticSettings{s: Default()}, the first instance
globalInstance == 1

\* mutant of fallbackInstance: init() shares the global instance
fallbackInstanceShared == globalInstance

\* init(): fallbackSettings = Default(), the second instance
fallbackInstance == 2

\* the instances a caller holds: the results of its Default() calls
userInstances == DOMAIN heap \ {globalInstance, fallbackInstance}

\* the arguments of the model's SetWatch calls
WatchArgs == {"returns", "panics"}

\* the arguments of the model's SetIgnoreLocationChecker calls
CheckerArgs == {<< >>, << "all" >>, << "none", "fmt" >>}

\* (s *settings) SetWatch
settingsSetWatch(s, f) == [s EXCEPT !.watch = f]

\* (s *settings) SetSafe
settingsSetSafe(s, safe) == [s EXCEPT !.safe = safe]

\* (s *settings) SetIgnoreLocationChecker
settingsSetIgnoreLocationChecker(s, cks) == [s EXCEPT !.ignoreLocationCheckers = cks]

\* package-level SetSafe: "globalSettings.s.safe = true"
globalSetSafe(s, safe) == [s EXCEPT !.safe = TRUE]

SettingsInit ==
  /\ heap = [id \in {globalInstance, fallbackInstance} |-> Default]
  /\ ops = << >>
  /\ namedSettings = [n \in Names |-> noSettings]
  /\ nextId = 3
  /\ rpc = << >>
  /\ rloc = << >>
  /\ hist = << >>
  /\ action = "none"
  /\ settings = Default
  /\ inflight = "nil"
  /\ cstack = << >>
  /\ frames = << >>
  /\ calls = << >>
  /\ outcome = "idle"
  /\ deferred = "none"
  /\ walkIdle
  /\ buildIdle

\* One public operation: it changes one instance (or none) and is logged.
\* settings is the object the package-level Recover loads: the global one.
applyOp(op, target, changed) ==
  /\ Len(ops) < MaxSettingsOps
  /\ heap' = [heap EXCEPT ![target] = changed]
  /\ settings' = heap'[globalInstance]
  /\ ops' = Append(ops, op)
  /\ UNCHANGED << action, inflight, cstack, frames, calls, outcome, deferred >>
  /\ UNCHANGED registryVars
  /\ UNCHANGED walkVars
  /\ UNCHANGED buildVars

SetWatch ==
  \E f \in WatchArgs :
    applyOp([op |-> "SetWatch", on |-> globalInstance, arg |-> f],
            globalInstance, settingsSetWatch(heap[globalInstance], f))

SetSafe ==
  \E safe \in BOOLEAN :
    applyOp([op |-> "SetSafe", on |-> globalInstance, arg |-> safe],
            globalInstance, globalSetSafe(heap[globalInstance], safe))

SetWatchWithSimpleLog ==
  applyOp([op |-> "SetWatchWithSimpleLog", on |-> globalInstance, arg |-> "SimpleLog"],
          globalInstance, settingsSetWatch(heap[globalInstance], "SimpleLog"))

SetIgnoreLocationChecker ==
  \E cks \in CheckerArgs :
    applyOp([op |-> "SetIgnoreLocationChecker", on |-> globalInstance, arg |-> cks],
            globalInstance, settingsSetIgnoreLocationChecker(heap[globalInstance], cks))

\* s := Default()
NewDefault ==
  /\ Len(ops) < MaxSettingsOps
  /\ heap' = [id \in DOMAIN heap \cup {nextId} |->
                IF id = nextId THEN Default ELSE heap[id]]
  /\ nextId' = nextId + 1
  /\ ops' = Append(ops, [op |-> "Default", on |-> nextId, arg |-> "none"])
  /\ UNCHANGED << namedSettings, rpc, rloc, hist >>
  /\ UNCHANGED captureVars
  /\ UNCHANGED walkVars
  /\ UNCHANGED buildVars

\* s.SetWatch(f) on an instance the caller holds
InstanceSetWatch ==
  \E s \in userInstances : \E f \in WatchArgs :
    applyOp([op |-> "s.SetWatch", on |-> s, arg |-> f], s, settingsSetWatch(heap[s], f))

\* s.SetSafe(safe) on an instance the caller holds
InstanceSetSafe ==
  \E s \in userInstances : \E safe \in BOOLEAN :
    applyOp([op |-> "s.SetSafe", on |-> s, arg |-> safe], s, settingsSetSafe(heap[s], safe))

\* s.SetIgnoreLocationChecker(cks...) on an instance the caller holds
InstanceSetIgnoreLocationChecker ==
  \E s \in userInstances : \E cks \in CheckerArgs :
    applyOp([op |-> "s.SetIgnoreLocationChecker", on |-> s, arg |-> cks],
            s, settingsSetIgnoreLocationChecker(heap[s], cks))

\* StoreSettings(name, s) with an instance the caller holds
StoreInstance ==
  \E name \in Names : \E s \in userInstances :
    /\ Len(ops) < MaxSettingsOps
    /\ namedSettings' = [namedSettings EXCEPT ![name] = s]
    /\ ops' = Append(ops, [op |-> "StoreSettings", on |-> s, arg |-> name])
    /\ UNCHANGED << nextId, rpc, rloc, hist, heap >>
    /\ UNCHANGED captureVars
    /\ UNCHANGED walkVars
    /\ UNCHANGED buildVars

SettingsNext ==
  \/ SetWatch
  \/ SetSafe
  \/ SetWatchWithSimpleLog
  \/ SetIgnoreLocationChecker
  \/ NewDefault
  \/ InstanceSetWatch
  \/ InstanceSetSafe
  \/ InstanceSetIgnoreLocationChecker
  \/ StoreInstance

SpecSettings == SettingsInit /\ [][SettingsNext]_vars

\* ------------------------------------------------------------------------
\* Properties of the settings objects (checked under SpecSettings)
\* ------------------------------------------------------------------------

\* C21: whatever public operations are made, the fallback settings keep the
\* default ignore list, the no-op watch and safe = false, and they are an
\* instance of their own: not the global one, not one a caller holds and
\* not one of the registry.
C21_FallbackIsFixed ==
  /\ heap[fallbackInstance] = fallbackSettings
  /\ heap[fallbackInstance].ignoreLocationCheckers = << "stdlib" >>
  /\ heap[fallbackInstance].watch = "discard"
  /\ ~heap[fallbackInstance].safe
  /\ fallbackInstance # globalInstance
  /\ fallbackInstance \notin userInstances
  /\ \A n \in Names : namedSettings[n] # fallbackInstance
  /\ \A k \in 1..Len(ops) : ops[k].on # fallbackInstance

C21_Witness ==
  /\ Len(ops) = 3
  /\ ops[1].op = "SetWatch" /\ ops[2].op = "Default" /\ ops[3].op = "s.SetSafe"
  /\ heap[globalInstance].watch = "panics"
  /\ heap[3].safe
  /\ heap[fallbackInstance] = Default

lastOp == ops[Len(ops)]

\* C24: the package-level SetSafe(b) leaves the safe flag of the global
\* settings equal to b, for b true and b false, and a capture with those
\* settings and no override on the action then runs in safe mode iff b.
C24_GlobalSetSafeSetsArgument ==
  (ops # << >> /\ lastOp.op = "SetSafe") =>
    /\ heap[globalInstance].safe = lastOp.arg
    /\ needRunFallbackSafe(Use("settings")) = lastOp.arg

\* the frame pairs the dumps are built from
framePairs ==
  {<< PanicFuncLine, PanicFileLine >>, << FmtFuncLine, FmtFileLine >>,
   << MainFuncLine, MainFileLine >>}

flaggingCheckers(cks, pair) ==
  {c \in 1..Len(cks) : check(cks[c], pair[1], pair[2])}

\* C30: a frame pair is noise for a settings object iff at least one checker
\* of its list returns true for it; with an empty list nothing is noise; and
\* SetIgnoreLocationChecker replaces the list: only the checkers given are
\* consulted afterwards.
C30_NoiseIffSomeChecker ==
  /\ \A s \in DOMAIN heap : \A pair \in framePairs :
       LET cks == heap[s].ignoreLocationCheckers
       IN /\ isIgnoreLoc(cks, pair[1], pair[2]) <=>
               Cardinality(flaggingCheckers(cks, pair)) >= 1
          /\ cks = << >> => ~isIgnoreLoc(cks, pair[1], pair[2])
  /\ (ops # << >> /\ lastOp.op \in {"SetIgnoreLocationChecker", "s.SetIgnoreLocationChecker"}) =>
       /\ heap[lastOp.on].ignoreLocationCheckers = lastOp.arg
       /\ \A pair \in framePairs :
            isIgnoreLoc(heap[lastOp.on].ignoreLocationCheckers, pair[1], pair[2]) <=>
              Cardinality(flaggingCheckers(lastOp.arg, pair)) >= 1

C30_Witness ==
  /\ ops # << >>
  /\ lastOp.op = "s.SetIgnoreLocationChecker"
  /\ lastOp.arg = << "none", "fmt" >>
  /\ isIgnoreLoc(Default.ignoreLocationCheckers, PanicFuncLine, PanicFileLine)
  /\ ~isIgnoreLoc(heap[lastOp.on].ignoreLocationCheckers, PanicFuncLine, PanicFileLine)
  /\ isIgnoreLoc(heap[lastOp.on].ignoreLocationCheckers, FmtFuncLine, FmtFileLine)
  /\ ~isIgnoreLoc(heap[lastOp.on].ignoreLocationCheckers, MainFuncLine, MainFileLine)

\* ------------------------------------------------------------------------
\* The PanicInfo values and the isolation of callbacks (checked under Spec)
\* ------------------------------------------------------------------------

\* C31: every PanicInfo a capture hands to watch and onPanic carries the
\* value that capture recovered, the dump that capture took and the Alias
\* and Extra of its action, for every record of the chain; two PanicInfo of
\* one capture differ in Direct and Actual only.
C31_InfoSharedByAllRecords ==
  /\ \A k \in recordCalls :
       /\ calls[k].info.Error = inflight
       /\ calls[k].info.Stack = cstack
       /\ calls[k].info.Alias = action.alias
       /\ calls[k].info.Extra = action.extra
  /\ \A j \in recordCalls : \A k \in recordCalls :
       [calls[j].info EXCEPT !.Direct = "any", !.Actual = "any"] =
         [calls[k].info EXCEPT !.Direct = "any", !.Actual = "any"]

C31_Witness ==
  /\ outcome = "returned"
  /\ cstack = chainText(2)
  /\ \E j \in ownCallsOf("watch") : \E k \in ownCallsOf("onPanic") :
       /\ calls[j].rec = 0 /\ calls[k].rec = 1
       /\ calls[j].info.Direct # calls[k].info.Direct
       /\ calls[j].info.Alias = "loc1" /\ calls[k].info.Alias = "loc1"
       /\ calls[j].info.Extra = "extra1" /\ calls[k].info.Extra = "extra1"
       /\ calls[j].info.Stack = calls[k].info.Stack

\* the number of records of the capture
numRecords == Len(findPanics(cstack, settings.ignoreLocationCheckers).locs)

callable(slot) == slot \notin {"nilptr", "nilfunc"}

\* the calls the capture made of a callback for record r (-1: no record)
ownCallsFor(fn, r) == {k \in ownCallsOf(fn) : calls[k].rec = r}

\* C32: in safe mode a capture that has taken its dump and found its
\* records invokes watch and onPanic (those that are set) exactly once for
\* every record, and always (if set) exactly once, whichever of these
\* callbacks unwind.
C32_SafeCallbacksIsolated ==
  (/\ finished
   /\ effectiveSafe
   /\ inflight = "err"
   /\ ~findPanics(cstack, settings.ignoreLocationCheckers).raised) =>
    /\ \A r \in 0..(numRecords - 1) :
         /\ callable(settings.watch) => Cardinality(ownCallsFor("watch", r)) = 1
         /\ callable(action.onPanic) => Cardinality(ownCallsFor("onPanic", r)) = 1
    /\ callable(action.always) => Cardinality(ownCallsOf("always")) = 1

\* ------------------------------------------------------------------------
\* A capture through ByName(name): every a.a.load() of postRecover,
\* needRunFallbackSafe and isIgnoreLoc is a load of nameLazySettings, run
\* while the other goroutine stores or loads names of the registry
\* ------------------------------------------------------------------------

\* the settings a caller of StoreSettings may have built
StoredSettings == [safe : BOOLEAN, watch : {"nilfunc", "discard"}]

\* positions of the StoreSettings that registered the instance id
storesOfId(id) == {k \in 1..Len(hist) : hist[k].ev = "store" /\ hist[k].id = id}

\* the fields of the instance id: as given to StoreSettings, or those of
\* Default() for an instance load has created
settingsOf(id) ==
  IF storesOfId(id) = {}
  THEN [safe |-> Default.safe, watch |-> Default.watch]
  ELSE hist[CHOOSE k \in storesOfId(id) : TRUE].s

\* the goroutine holds an action made by ByName
holdsAction(p) == "what" \in DOMAIN rloc[p]

\* positions of the loads the capture has made, in program order
captureReads == {k \in 1..Len(hist) : hist[k].ev = "read"}

\* number of isIgnoreLoc calls the capture has made
policyReads == Cardinality({k \in captureReads : hist[k].what = "policy"})

\* largest number of StoreSettings and loads run by the other goroutine
MaxDisturb == 1

\* the goroutine whose deferred call captures; the other one stores and loads
capturer == CHOOSE p \in Procs : TRUE

\* ByName(name): action{a: &nameLazySettings{name: name}}
ByName(name) == [name |-> name]

ByNameInit ==
  /\ namedSettings = [n \in Names |-> noSettings]
  /\ nextId = 1
  /\ rpc = [p \in Procs |-> "idle"]
  /\ rloc = [p \in Procs |-> [name |-> "x", s2 |-> noSettings]]
  /\ hist = << >>
  /\ walkIdle
  /\ captureIdle
  /\ buildIdle
  /\ settingsIdle

\* a goroutine makes the action: defer ByName(name).Recover()
CallByName(p, name) ==
  /\ p = capturer
  /\ rpc[p] = "idle"
  /\ rpc' = [rpc EXCEPT ![p] = "armed"]
  /\ rloc' = [rloc EXCEPT ![p] = [name |-> ByName(name).name, s2 |-> noSettings,
                                  what |-> "none", records |-> 0, rec |-> 0, safe |-> FALSE]]
  /\ hist' = Append(hist, [ev |-> "byname", p |-> p, name |-> name, id |-> noSettings])
  /\ UNCHANGED << namedSettings, nextId >>
  /\ UNCHANGED walkVars
  /\ UNCHANGED settingsVars
  /\ UNCHANGED captureVars
  /\ UNCHANGED buildVars

\* StoreSettings(name, a) with the settings s in a new instance
StoreSettingsOf(p, name, s) ==
  /\ p # capturer
  /\ rpc[p] = "idle"
  /\ opsStarted < MaxDisturb
  /\ namedSettings' = [namedSettings EXCEPT ![name] = nextId]
  /\ nextId' = nextId + 1
  /\ hist' = Append(hist, [ev |-> "store", p |-> p, name |-> name, id |-> nextId, s |-> s])
  /\ UNCHANGED << rpc, rloc >>
  /\ UNCHANGED walkVars
  /\ UNCHANGED settingsVars
  /\ UNCHANGED captureVars
  /\ UNCHANGED buildVars

\* the function panics and the deferred Recover enters postRecover with a
\* dump of `records` chained panics; the first load is the one of
\* needRunFallbackSafe
BeginCapture(p, records) ==
  /\ rpc[p] = "armed"
  /\ rpc' = [rpc EXCEPT ![p] = "lookup"]
  /\ rloc' = [rloc EXCEPT ![p].what = "safe", ![p].records = records]
  /\ hist' = Append(hist, [ev |-> "begin", p |-> p, name |-> rloc[p].name,
                           id |-> namedSettings[rloc[p].name], next |-> nextId])
  /\ UNCHANGED << namedSettings, nextId >>
  /\ UNCHANGED walkVars
  /\ UNCHANGED settingsVars
  /\ UNCHANGED captureVars
  /\ UNCHANGED buildVars

\* the load site of postRecover that follows the load `what` that returned
\* the instance id: the walk calls isIgnoreLoc once per record, then the
\* loop loads the watch of each record
nextLoad(loc, id, checked) ==
  CASE loc.what = "safe" -> "policy"
    [] loc.what = "policy" ->
         IF checked < loc.records THEN "policy"
         ELSE IF loc.safe THEN "watch" ELSE "watchCheck"
    [] loc.what = "watchCheck" /\ settingsOf(id).watch # "nilfunc" -> "watchCall"
    [] loc.what = "watchCall" /\ settingsOf(id).watch = "nilfunc" -> "panicked"
    [] OTHER ->
         IF loc.rec + 1 < loc.records
         THEN (IF loc.safe THEN "watch" ELSE "watchCheck")
         ELSE "returned"

\* a load of the capture returns s2 to its call site, which reads the field
\* it needs and goes on to the next site
LoadReturnToCapture(p) ==
  /\ rpc[p] = "return"
  /\ holdsAction(p)
  /\ hist' = Append(hist, [ev |-> "read", p |-> p, name |-> rloc[p].name,
                           id |-> rloc[p].s2, what |-> rloc[p].what, rec |-> rloc[p].rec])
  /\ LET isSafe == IF rloc[p].what = "safe" THEN settingsOf(rloc[p].s2).safe ELSE rloc[p].safe
         checked == policyReads + (IF rloc[p].what = "policy" THEN 1 ELSE 0)
         nxt == nextLoad([rloc[p] EXCEPT !.safe = isSafe], rloc[p].s2, checked)
         endsRecord == rloc[p].what \in {"watch", "watchCheck", "watchCall"} /\ nxt # "watchCall"
     IN /\ rloc' = [rloc EXCEPT ![p].safe = isSafe,
                                ![p].what = nxt,
                                ![p].rec = IF endsRecord THEN @ + 1 ELSE @]
        /\ rpc' = [rpc EXCEPT ![p] = IF nxt \in {"returned", "panicked"} THEN "finished" ELSE "lookup"]
  /\ UNCHANGED << namedSettings, nextId >>
  /\ UNCHANGED walkVars
  /\ UNCHANGED settingsVars
  /\ UNCHANGED captureVars
  /\ UNCHANGED buildVars

ByNameNext ==
  \/ \E p \in Procs : \E name \in Names : CallByName(p, name)
  \/ \E p \in Procs : \E name \in Names : \E s \in StoredSettings : StoreSettingsOf(p, name, s)
  \/ \E p \in Procs : \E records \in 1..MaxChain : BeginCapture(p, records)
  \/ \E p \in Procs : LoadLookup(p)
  \/ \E p \in Procs : LoadCreate(p)
  \/ \E p \in Procs : LoadReturnToCapture(p)
  \/ \E p \in Procs : \E name \in Names : p # capturer /\ opsStarted < MaxDisturb /\ CallLoad(p, name)
  \/ \E p \in Procs : p # capturer /\ LoadReturn(p)

SpecByName == ByNameInit /\ [][ByNameNext]_vars

\* ------------------------------------------------------------------------
\* Properties of a capture through ByName (checked under SpecByName)
\* ------------------------------------------------------------------------

\* C33: within one capture through a ByName action the safe decision, the
\* ignore policy and the watch (its nil check and its invocation) all come
\* from one and the same settings instance, also when a StoreSettings of
\* the name or a lazy load by another goroutine runs during the capture.
C33_OneInstancePerCapture ==
  \A j \in captureReads : \A k \in captureReads : hist[j].id = hist[k].id

\* the capture has ended
captureEnded == \E p \in Procs : rpc[p] = "finished"

\* position of the entry of the capture into postRecover
beginAt == CHOOSE k \in 1..Len(hist) : hist[k].ev = "begin"

\* position of the ByName call
byNameAt == CHOOSE k \in 1..Len(hist) : hist[k].ev = "byname"

\* no other operation on the registry runs while the capture does: none is
\* pending when it begins and none starts before it ends
captureUndisturbed ==
  /\ \A k \in (beginAt + 1)..Len(hist) : hist[k].ev = "read"
  /\ \A k \in 1..beginAt : hist[k].ev = "call" => \E j \in (k + 1)..beginAt : hist[j].ev = "ret" /\ hist[j].p = hist[k].p

\* positions of the StoreSettings of the captured name issued between
\* ByName and the capture
storesBeforeCapture ==
  {k \in (byNameAt + 1)..(beginAt - 1) : hist[k].ev = "store" /\ hist[k].name = hist[beginAt].name}

\* C34: the action of ByName(name) resolves its settings at capture time:
\* the capture uses the instance of the last StoreSettings(name, c) issued
\* after ByName and before the capture, and when nothing is registered
\* under the name at capture time it uses a fresh default, which is then
\* the entry of the name.
C34_ResolvedAtCaptureTime ==
  (captureEnded /\ captureUndisturbed) =>
    /\ hist[beginAt].name = hist[byNameAt].name
    /\ captureReads # {}
    /\ \A s \in storesBeforeCapture :
         (\A t \in storesBeforeCapture : t <= s) =>
           \A k \in captureReads : hist[k].id = hist[s].id
    /\ hist[beginAt].id = noSettings =>
         /\ \A k \in captureReads : hist[k].id = hist[beginAt].next
         /\ storesOfId(hist[beginAt].next) = {}
         /\ namedSettings[hist[beginAt].name] = hist[beginAt].next

C34_Witness ==
  /\ captureEnded
  /\ captureUndisturbed
  /\ storesBeforeCapture # {}
  /\ \E k \in captureReads : hist[k].what = "watchCall" /\ hist[k].id = namedSettings[hist[beginAt].name]
  /\ Cardinality(captureReads) >= 4

\* a capture that found no entry has used a fresh default, now registered
C34_WitnessDefault ==
  /\ captureEnded
  /\ captureUndisturbed
  /\ hist[beginAt].id = noSettings
  /\ \E k \in captureReads : hist[k].what = "watchCall" /\ hist[k].id = namedSettings[hist[beginAt].name]

====
